---- MODULE Spec2Model ----
(***************************************************************************)
(* PersonalizationEngine of assets/js/production-analytics.js: the user    *)
(* profile store, the profile update run for every recorded interaction,   *)
(* user similarity, and the content-based, collaborative and hybrid        *)
(* recommendation queries.                                                 *)
(*                                                                         *)
(* Numbers.  The code computes in IEEE doubles.  Here every quantity is an *)
(* integer count of a fixed unit, so that sums and comparisons are those   *)
(* of real arithmetic:                                                     *)
(*   interaction weights and affinities   1/WeightScale                    *)
(*   the four sub-similarities            1/SimScale (floor of the value)  *)
(*   a user similarity                    1/(10*SimScale)                  *)
(*   a content-based score                1/ScoreScale                     *)
(* The two values of a double that are not real numbers are kept: Infinity *)
(* (the upper end of a fresh priceRange) and NaN (Infinity/Infinity, 0/0), *)
(* with the arithmetic and the comparisons IEEE gives them.                *)
(***************************************************************************)
EXTENDS Integers, Sequences, FiniteSets, TLC

VARIABLES
    userProfiles,   \* this.userProfiles: the Map, as the sequence of its profiles in insertion order
    localStorage,   \* the item 'shopr_user_profiles': the profiles last written, in key order
    ret,            \* the call that ran last, with its arguments and its return value
    now,            \* Date.now(), in minutes since the SecurityManager was constructed
    rateLimitStore, \* SecurityManager.rateLimitStore: the Map, as a function on its keys
    threatStore,    \* SecurityManager.threatStore: the Map, as a function on its keys
    granted,        \* history variable: per key, the times of the checkRateLimit calls
                    \* that returned allowed: true and are younger than the key's window
    sessionStore,   \* SecurityManager.sessionStore: the Map, as the sequence of its sessions
                    \* in insertion order
    issued,         \* the number of ids generateSecureId has returned
    experiments,    \* PersonalizationEngine.experiments: the Map, as a function on its keys
    eventQueue,     \* ProductionAnalytics.eventQueue: the types of the queued events
    errorQueue,     \* ProductionAnalytics.errorQueue: the types of the queued errors
    sends,          \* the sendBatch calls that wait for their fetch or for their retry timer
    retryCount,     \* ProductionAnalytics.retryCount: the Map, as a function on its keys
    eventIds        \* the number of batch ids generateEventId has returned

engineVars == <<userProfiles, localStorage>>
sessionVars == <<sessionStore, issued>>
securityVars == <<now, rateLimitStore, threatStore, granted, sessionVars>>
analyticsVars == <<eventQueue, errorQueue, sends, retryCount, eventIds>>
vars == <<userProfiles, localStorage, ret, now, rateLimitStore, threatStore, granted,
          sessionStore, issued, experiments, eventQueue, errorQueue, sends, retryCount,
          eventIds>>

-----------------------------------------------------------------------------
(* Bounds of the model and units *)

MaxInteractions == 7        \* recorded interactions in a run of Spec or SpecEmpty
MaxScored == 6              \* recorded interactions in a run of SpecScore
MaxCompared == 8            \* recorded interactions in a run of SpecSimilarity
MaxRecorded == 4            \* recorded interactions in a run of SpecRecord
maxHistoryItems == 2        \* config.userProfiling.maxHistoryItems of the modelled engine
MaxRateTime == 6            \* minutes a run of SpecRateLimit lasts
MaxThreatTime == 10         \* minutes a run of SpecThreat lasts
MaxFailures == 6            \* recordFailedAttempt calls between two clearings of an entry
PurchasesBefore == 6        \* purchases u1 has made when a run of SpecCollaborative starts
MaxLiked == 4               \* recorded interactions in a run of SpecCollaborative
MaxBatches == 9             \* batch ids generated in a run of SpecAnalytics
MaxQueued == 1              \* errors in the queue when a javascript error is tracked
MaxActivity == 1            \* batch ids generated when the last javascript error is tracked
MaxResults == 3             \* results tracked in a run of SpecExperiment
MaxSessionTime == 3         \* hours of a day that pass one by one in a run of SpecSession
MaxSessions == 2            \* sessions in the store when createSecureSession is called
MaxIssued == 3              \* session ids generated in a run of SpecSession

WeightScale == 100
SimScale == 1000
ScoreScale == 3000

Infinity == 1000000000      \* Number.POSITIVE_INFINITY: above every price of the model
NaN == -1                   \* Number.NaN: outside every range of values the model computes

minSimilarUsers == 5
MinSimilarity == 1000       \* 0.1, in units of 1/(10*SimScale)

-----------------------------------------------------------------------------
(* The universe the inputs are drawn from *)

Users == {"u1", "u2"}
Categories == {"clothing", "shoes"}
Brands == {"b1", "b2"}
Styles == {"casual", "formal"}
Tags == {"casual", "work"}
Types == {"view", "click", "add_to_cart", "purchase", "wishlist", "share"}

\* An absent optional field is the value JavaScript treats as false: "" or 0.
\* A tag list can be absent (hasTags = FALSE) or present and empty.
\* timestampAge is the interaction's own timestamp field, as its age in days when
\* the interaction is recorded; 0 also when the field is absent.
Interaction(type, productId, category, brand, price, style, hasTags, tags) ==
    [type |-> type, productId |-> productId, category |-> category, brand |-> brand,
     price |-> price, style |-> style, hasTags |-> hasTags, tags |-> tags,
     season |-> "", timeOfDay |-> "", timestampAge |-> 0]

Product(id, category, brand, price, hasTags, tags) ==
    [id |-> id, category |-> category, brand |-> brand, price |-> price,
     hasTags |-> hasTags, tags |-> tags, season |-> ""]

-----------------------------------------------------------------------------
(* Integer helpers *)

Min(a, b) == IF a <= b THEN a ELSE b
Max(a, b) == IF a >= b THEN a ELSE b

RECURSIVE Gcd(_, _)
Gcd(a, b) == IF b = 0 THEN a ELSE Gcd(b, a % b)

RECURSIVE Pow10(_)
Pow10(d) == IF d = 0 THEN 1 ELSE 10 * Pow10(d - 1)

\* floor(10^digits * a / b) by long division, b > 0, a >= 0
RECURSIVE LongDiv(_, _, _)
LongDiv(a, b, digits) ==
    IF digits = 0 THEN a \div b
    ELSE (a \div b) * Pow10(digits) + LongDiv((a % b) * 10, b, digits - 1)

\* floor(SimScale * a / b)
Ratio(a, b) == LongDiv(a, b, 3)

\* floor(sqrt(x)) by bisection on lo..hi
RECURSIVE ISqrtIn(_, _, _)
ISqrtIn(lo, hi, x) ==
    IF lo = hi THEN lo
    ELSE LET mid == (lo + hi + 1) \div 2
         IN  IF mid * mid <= x THEN ISqrtIn(mid, hi, x) ELSE ISqrtIn(lo, mid - 1, x)

RECURSIVE SumOver(_, _)
SumOver(S, f) ==
    IF S = {} THEN 0
    ELSE LET x == CHOOSE y \in S : TRUE IN f[x] + SumOver(S \ {x}, f)

RECURSIVE ProdOver(_, _)
ProdOver(S, f) ==
    IF S = {} THEN 1
    ELSE LET x == CHOOSE y \in S : TRUE IN f[x] * ProdOver(S \ {x}, f)

\* Array.prototype.slice(0, n)
Take(s, n) == SubSeq(s, 1, Min(n, Len(s)))

\* Array.prototype.slice(-n), n > 0
LastN(s, n) == SubSeq(s, Max(1, Len(s) - n + 1), Len(s))

\* The elements of a sequence
Range(s) == {s[i] : i \in 1..Len(s)}

\* Array.prototype.sort((a, b) => key(b) - key(a)): descending, stable.
\* key is a function on the elements of s.
RECURSIVE InsertDesc(_, _, _)
InsertDesc(sorted, x, key) ==
    IF sorted = <<>> THEN <<x>>
    ELSE IF key[Head(sorted)] >= key[x]
         THEN <<Head(sorted)>> \o InsertDesc(Tail(sorted), x, key)
         ELSE <<x>> \o sorted

RECURSIVE SortDesc(_, _)
SortDesc(s, key) ==
    IF s = <<>> THEN <<>>
    ELSE InsertDesc(SortDesc(SubSeq(s, 1, Len(s) - 1), key), s[Len(s)], key)

-----------------------------------------------------------------------------
(* IEEE values that are not real numbers *)

IsNumber(x) == x # NaN

\* a + b
AddF(a, b) == IF a = NaN \/ b = NaN THEN NaN ELSE a + b

\* a > b
GtF(a, b) == a # NaN /\ b # NaN /\ a > b

\* a === b
EqF(a, b) == a # NaN /\ b # NaN /\ a = b

\* a - b for prices, either of which may be Infinity
SubX(a, b) ==
    IF a = Infinity THEN (IF b = Infinity THEN NaN ELSE Infinity)
    ELSE a - b

-----------------------------------------------------------------------------
(* Configuration: the constructor's defaults *)

\* config.behaviorAnalysis.clickWeights[type] || 1.0, in 1/WeightScale
clickWeights(type) ==
    CASE type = "view" -> 100
      [] type = "click" -> 200
      [] type = "add_to_cart" -> 500
      [] type = "purchase" -> 1000
      [] type = "wishlist" -> 300
      [] type = "share" -> 250
      [] OTHER -> 100

\* config.userProfiling.categoryWeights[category] || 1.0, in 1/100
categoryWeights(category) ==
    CASE category = "clothing" -> 100
      [] category = "shoes" -> 90
      [] category = "accessories" -> 80
      [] category = "electronics" -> 70
      [] category = "home" -> 60
      [] OTHER -> 100

\* config.behaviorAnalysis.timeWeights, in 1/10, by the age in days
calculateTimeWeight(ageDays) ==
    IF ageDays < 1 THEN 10
    ELSE IF ageDays < 7 THEN 8
    ELSE IF ageDays < 30 THEN 6
    ELSE 3

\* The context read from the wall clock: getCurrentSeason(), getCurrentTimeOfDay()
Contexts ==
    {[season |-> "winter", timeOfDay |-> "morning"],
     [season |-> "summer", timeOfDay |-> "evening"]}

\* in 1/100
calculateContextWeight(interaction, ctx) ==
    LET s == IF interaction.season # "" /\ ctx.season = interaction.season THEN 12 ELSE 10
        t == IF interaction.timeOfDay # "" /\ ctx.timeOfDay = interaction.timeOfDay
             THEN 11 ELSE 10
    IN  s * t

\* baseWeight * timeWeight * contextWeight, in 1/WeightScale.  The timestamp handed
\* in is the `now` that updateUserProfile has just read, so its age is 0 days.
calculateInteractionWeight(interaction, ctx) ==
    (clickWeights(interaction.type) * calculateTimeWeight(0)
        * calculateContextWeight(interaction, ctx)) \div 1000

-----------------------------------------------------------------------------
(* The profile store *)

ZeroOn(S) == [x \in S |-> 0]

createNewUserProfile(userId) ==
    [userId |-> userId,
     behaviorHistory |-> <<>>,
     purchaseHistory |-> <<>>,
     categoryAffinities |-> ZeroOn(Categories),   \* {}: a key is present iff its value is > 0
     brandAffinities |-> ZeroOn(Brands),
     priceRange |-> [min |-> 0, max |-> Infinity],
     hasPreferredPriceRange |-> FALSE,            \* preferredPriceRange is undefined
     preferredPriceRange |-> [min |-> 0, max |-> 0],
     hasStyleProfile |-> FALSE,                   \* styleProfile.styles and .tags are undefined
     styles |-> ZeroOn(Styles),
     tags |-> ZeroOn(Tags),
     totalInteractions |-> 0,
     viewsRecorded |-> 0,                         \* history variable, see updateUserProfile
     conversionRate |-> 0,                        \* in 1/SimScale
     averageOrderValue |-> 0,                     \* in 1/SimScale
     lifetimeValue |-> 0]

\* Map.prototype.has / get
Has(store, userId) == \E i \in 1..Len(store) : store[i].userId = userId
IndexOf(store, userId) == CHOOSE i \in 1..Len(store) : store[i].userId = userId
Get(store, userId) == store[IndexOf(store, userId)]
Keys(store) == [i \in 1..Len(store) |-> store[i].userId]

\* Map.prototype.set: a new key goes last, an old key keeps its place
Set(store, profile) ==
    IF Has(store, profile.userId)
    THEN [store EXCEPT ![IndexOf(store, profile.userId)] = profile]
    ELSE Append(store, profile)

\* The store after getUserProfile(userId), which creates the profile it does not find
Touch(store, userId) ==
    IF Has(store, userId) THEN store ELSE Append(store, createNewUserProfile(userId))

getUserProfile(store, userId) == Get(Touch(store, userId), userId)

-----------------------------------------------------------------------------
(* updateUserProfile and the updates it makes *)

\* updateCategoryAffinity that assigns the increment instead of adding it
updateCategoryAffinityAssign(profile, category, interactionType) ==
    [profile EXCEPT !.categoryAffinities[category] =
        (clickWeights(interactionType) * categoryWeights(category)) \div 100]

updateCategoryAffinity(profile, category, interactionType) ==
    [profile EXCEPT !.categoryAffinities[category] =
        @ + (clickWeights(interactionType) * categoryWeights(category)) \div 100]

updateBrandAffinity(profile, brand, interactionType) ==
    [profile EXCEPT !.brandAffinities[brand] = @ + clickWeights(interactionType)]

\* purchaseHistory.map(p => p.price).filter(p => p).sort((a, b) => a - b)
PurchasePrices(profile) ==
    LET priced == SelectSeq(profile.purchaseHistory, LAMBDA p : p.price # 0)
        neg == [p \in Range(priced) |-> 0 - p.price]
        sorted == SortDesc(priced, neg)
    IN  [i \in 1..Len(sorted) |-> sorted[i].price]

updatePricePreferences(profile, price) ==
    LET r == profile.priceRange
        lo == IF r.min = 0 \/ price < r.min THEN price ELSE r.min
        hi == IF r.max = 0 \/ price > r.max THEN price ELSE r.max
        prices == PurchasePrices(profile)
        n == Len(prices)
        widened == [profile EXCEPT !.priceRange = [min |-> lo, max |-> hi]]
    IN  IF n >= 5
        THEN [widened EXCEPT
                !.hasPreferredPriceRange = TRUE,
                !.preferredPriceRange = [min |-> prices[((n * 1) \div 10) + 1],
                                         max |-> prices[((n * 9) \div 10) + 1]]]
        ELSE widened

updateStyleProfile(profile, style, hasTags, tags) ==
    LET styled == IF style # ""
                  THEN [profile EXCEPT !.hasStyleProfile = TRUE, !.styles[style] = @ + 1]
                  ELSE [profile EXCEPT !.hasStyleProfile = TRUE]
        occurrences(t) == Cardinality({i \in 1..Len(tags) : tags[i] = t})
    IN  IF hasTags
        THEN [styled EXCEPT !.tags = [t \in Tags |-> @[t] + occurrences(t)]]
        ELSE styled

updateConversionMetrics(profile, interaction) ==
    IF interaction.type = "purchase"
    THEN LET purchases == Append(profile.purchaseHistory,
                                 [productId |-> interaction.productId,
                                  price |-> interaction.price,
                                  category |-> interaction.category])
             totalViews == Len(SelectSeq(profile.behaviorHistory, LAMBDA h : h.type = "view"))
             totalPurchases == Len(purchases)
             totalValue == SumOver(1..totalPurchases, [i \in 1..totalPurchases |-> purchases[i].price])
         IN  [profile EXCEPT
                !.purchaseHistory = purchases,
                !.conversionRate = IF totalViews > 0 THEN Ratio(totalPurchases, totalViews) ELSE 0,
                !.averageOrderValue = Ratio(totalValue, totalPurchases),
                !.lifetimeValue = totalValue]
    ELSE profile

\* The entry pushed on behaviorHistory: {...interaction, timestamp: now, weight}.
\* The interaction's own timestamp is overwritten by now and is not read.
\* timestamp is the place of the call in the user's stream of recorded interactions,
\* the order that the wall-clock values of `now` give the entries of one profile.
HistoryEntry(profile, interaction, ctx) ==
    [type |-> interaction.type, productId |-> interaction.productId,
     category |-> interaction.category, brand |-> interaction.brand,
     price |-> interaction.price, style |-> interaction.style,
     hasTags |-> interaction.hasTags, tags |-> interaction.tags,
     season |-> interaction.season, timeOfDay |-> interaction.timeOfDay,
     timestamp |-> profile.totalInteractions + 1,
     weight |-> calculateInteractionWeight(interaction, ctx)]

\* PushHistory that cuts with slice(0, maxHistoryItems): the newest entry is dropped
PushHistoryKeepOldest(history, entry) ==
    LET pushed == Append(history, entry)
    IN  IF Len(pushed) > maxHistoryItems THEN Take(pushed, maxHistoryItems) ELSE pushed

\* behaviorHistory.push(entry), then the cut to the last maxHistoryItems
PushHistory(history, entry) ==
    LET pushed == Append(history, entry)
    IN  IF Len(pushed) > maxHistoryItems THEN LastN(pushed, maxHistoryItems) ELSE pushed

\* updateUserProfile that calls updateStyleProfile whatever the interaction holds
updateUserProfileAlwaysStyle(profile, interaction, ctx) ==
    LET p1 == [profile EXCEPT !.behaviorHistory =
                    PushHistory(@, HistoryEntry(profile, interaction, ctx))]
        p2 == IF interaction.category # ""
              THEN updateCategoryAffinity(p1, interaction.category, interaction.type)
              ELSE p1
        p3 == IF interaction.brand # ""
              THEN updateBrandAffinity(p2, interaction.brand, interaction.type)
              ELSE p2
        p4 == IF interaction.price # 0
              THEN updatePricePreferences(p3, interaction.price)
              ELSE p3
        p5 == updateStyleProfile(p4, interaction.style, interaction.hasTags, interaction.tags)
        p6 == updateConversionMetrics(p5, interaction)
    IN  [p6 EXCEPT !.totalInteractions = @ + 1,
                   !.viewsRecorded = @ + (IF interaction.type = "view" THEN 1 ELSE 0)]

\* The profile of userId after updateUserProfile(userId, interaction)
updateUserProfile(profile, interaction, ctx) ==
    LET p1 == [profile EXCEPT !.behaviorHistory =
                    PushHistory(@, HistoryEntry(profile, interaction, ctx))]
        p2 == IF interaction.category # ""
              THEN updateCategoryAffinity(p1, interaction.category, interaction.type)
              ELSE p1
        p3 == IF interaction.brand # ""
              THEN updateBrandAffinity(p2, interaction.brand, interaction.type)
              ELSE p2
        p4 == IF interaction.price # 0
              THEN updatePricePreferences(p3, interaction.price)
              ELSE p3
        p5 == IF interaction.style # "" \/ interaction.hasTags
              THEN updateStyleProfile(p4, interaction.style, interaction.hasTags, interaction.tags)
              ELSE p4
        p6 == updateConversionMetrics(p5, interaction)
    \* viewsRecorded is a history variable, no field of the program: the number of
    \* calls with type view, which behaviorHistory forgets when it is cut
    IN  [p6 EXCEPT !.totalInteractions = @ + 1,
                   !.viewsRecorded = @ + (IF interaction.type = "view" THEN 1 ELSE 0)]

-----------------------------------------------------------------------------
(* User similarity.  Sub-similarities are in 1/SimScale, or NaN. *)

\* Object.keys of an affinity or count object
KeysOf(f) == {k \in DOMAIN f : f[k] > 0}

\* floor(SimScale * dot / (sqrt(norm1) * sqrt(norm2))), norm1 > 0, norm2 > 0.
\* The square of the quotient is the fraction x/y in lowest terms.
Cosine(dot, norm1, norm2) ==
    LET g1 == Gcd(dot, norm1)
        g2 == Gcd(dot, norm2)
        a == dot \div g1
        b == norm1 \div g1
        c == dot \div g2
        d == norm2 \div g2
        h1 == Gcd(a, d)
        h2 == Gcd(c, b)
        x == (a \div h1) * (c \div h2)
        y == (b \div h2) * (d \div h1)
    IN  ISqrtIn(0, SimScale, LongDiv(x, y, 6))

\* calculateCategorySimilarity that sums over the keys of profile1 alone
calculateCategorySimilarityOwnKeys(profile1, profile2) ==
    LET aff1 == profile1.categoryAffinities
        aff2 == profile2.categoryAffinities
        allCategories == KeysOf(aff1)
        dotProduct == SumOver(allCategories, [c \in allCategories |-> aff1[c] * aff2[c]])
        norm1 == SumOver(allCategories, [c \in allCategories |-> aff1[c] * aff1[c]])
        norm2 == SumOver(allCategories, [c \in allCategories |-> aff2[c] * aff2[c]])
    IN  IF allCategories = {} THEN 0
        ELSE IF norm1 = 0 \/ norm2 = 0 THEN 0
        ELSE Cosine(dotProduct, norm1, norm2)

calculateCategorySimilarity(profile1, profile2) ==
    LET aff1 == profile1.categoryAffinities
        aff2 == profile2.categoryAffinities
        allCategories == KeysOf(aff1) \cup KeysOf(aff2)
        dotProduct == SumOver(allCategories, [c \in allCategories |-> aff1[c] * aff2[c]])
        norm1 == SumOver(allCategories, [c \in allCategories |-> aff1[c] * aff1[c]])
        norm2 == SumOver(allCategories, [c \in allCategories |-> aff2[c] * aff2[c]])
    IN  IF allCategories = {} THEN 0
        ELSE IF norm1 = 0 \/ norm2 = 0 THEN 0
        ELSE Cosine(dotProduct, norm1, norm2)

calculateBrandSimilarity(profile1, profile2) ==
    LET brands1 == KeysOf(profile1.brandAffinities)
        brands2 == KeysOf(profile2.brandAffinities)
        intersection == brands1 \cap brands2
        union == brands1 \cup brands2
    IN  IF Cardinality(union) > 0
        THEN Ratio(Cardinality(intersection), Cardinality(union))
        ELSE 0

\* profile.preferredPriceRange || profile.priceRange
PriceRangeOf(profile) ==
    IF profile.hasPreferredPriceRange THEN profile.preferredPriceRange ELSE profile.priceRange

\* overlap / totalRange, where totalRange > 0
PriceQuotient(overlap, totalRange) ==
    IF totalRange = Infinity
    THEN (IF overlap = Infinity THEN NaN ELSE 0)
    ELSE Ratio(overlap, totalRange)

calculatePriceSimilarity(profile1, profile2) ==
    LET range1 == PriceRangeOf(profile1)
        range2 == PriceRangeOf(profile2)
        overlap == Max(0, SubX(Min(range1.max, range2.max), Max(range1.min, range2.min)))
        totalRange == SubX(Max(range1.max, range2.max), Min(range1.min, range2.min))
    IN  IF totalRange > 0 THEN PriceQuotient(overlap, totalRange) ELSE 0

calculateStyleSimilarity(profile1, profile2) ==
    LET styles1 == profile1.styles
        styles2 == profile2.styles
        allStyles == KeysOf(styles1) \cup KeysOf(styles2)
        most == [st \in allStyles |-> Max(Max(styles1[st], styles2[st]), 1)]
        least == [st \in allStyles |-> Min(styles1[st], styles2[st])]
        common == ProdOver(allStyles, most)
        \* the sum of least/most over allStyles, as a count of 1/common
        similarity == SumOver(allStyles, [st \in allStyles |-> least[st] * (common \div most[st])])
    IN  IF allStyles = {} THEN 0
        ELSE Ratio(similarity, common * Cardinality(allStyles))

\* x * k for a constant k > 0
MulF(x, k) == IF x = NaN THEN NaN ELSE x * k

\* The weighted average: 0.4, 0.3, 0.2 and 0.1 of the four, in 1/(10*SimScale), or NaN
WeightedAverage(categorySimilarity, brandSimilarity, priceSimilarity, styleSimilarity) ==
    AddF(AddF(AddF(MulF(categorySimilarity, 4), MulF(brandSimilarity, 3)),
              MulF(priceSimilarity, 2)),
         MulF(styleSimilarity, 1))

Similarity(profile1, profile2) ==
    WeightedAverage(calculateCategorySimilarity(profile1, profile2),
                    calculateBrandSimilarity(profile1, profile2),
                    calculatePriceSimilarity(profile1, profile2),
                    calculateStyleSimilarity(profile1, profile2))

calculateUserSimilarity(store, userId1, userId2) ==
    LET touched == Touch(Touch(store, userId1), userId2)
    IN  Similarity(Get(touched, userId1), Get(touched, userId2))

\* SimilarCandidates without the test otherUserId !== userId
SimilarCandidatesWithSelf(store, userId) ==
    LET scored == [i \in 1..Len(store) |->
                     [userId |-> store[i].userId,
                      similarity |-> calculateUserSimilarity(store, userId, store[i].userId)]]
    IN  SelectSeq(scored, LAMBDA e : GtF(e.similarity, MinSimilarity))

\* The users findSimilarUsers pushes, in the Map's iteration order
SimilarCandidates(store, userId) ==
    LET others == SelectSeq(Keys(store), LAMBDA k : k # userId)
        scored == [i \in 1..Len(others) |->
                     [userId |-> others[i],
                      similarity |-> calculateUserSimilarity(store, userId, others[i])]]
    IN  SelectSeq(scored, LAMBDA e : GtF(e.similarity, MinSimilarity))

findSimilarUsers(store, userId, limit) ==
    LET similarities == SimilarCandidates(store, userId)
    IN  Take(SortDesc(similarities, [e \in Range(similarities) |-> e.similarity]), limit)

\* The store after findSimilarUsers: the target is created by the first comparison
AfterFindSimilarUsers(store, userId) ==
    IF \E i \in 1..Len(store) : store[i].userId # userId THEN Touch(store, userId) ELSE store

-----------------------------------------------------------------------------
(* Content-based, collaborative and hybrid recommendations *)

hybridWeight == 7           \* config.recommendations.hybridWeight, in 1/10
diversityFactor == 3        \* config.recommendations.diversityFactor, in 1/10

\* products.find(p => p.id === productId); callers check Knows first
Knows(products, productId) == \E i \in 1..Len(products) : products[i].id = productId
Find(products, productId) ==
    products[CHOOSE i \in 1..Len(products) :
                /\ products[i].id = productId
                /\ \A j \in 1..(i - 1) : products[j].id # productId]

\* tags.reduce((sum, tag) => sum + (count[tag] || 0), 0) / tags.length, times 0.1,
\* in 1/ScoreScale; 0/0 for an empty list
StyleScore(profile, tags) ==
    LET n == Len(tags)
        sum == SumOver(1..n, [i \in 1..n |-> IF tags[i] \in Tags THEN profile.tags[tags[i]] ELSE 0])
    IN  IF n = 0 THEN NaN ELSE (300 * sum) \div n

\* The score getContentBasedRecommendations gives one product, in 1/ScoreScale, or NaN
ContentScore(profile, product) ==
    LET categoryAffinity == IF product.category \in Categories
                            THEN profile.categoryAffinities[product.category] ELSE 0
        brandAffinity == IF product.brand \in Brands
                         THEN profile.brandAffinities[product.brand] ELSE 0
        priceRange == PriceRangeOf(profile)
        \* a product without a price (0) compares false with both ends
        priced == IF /\ product.price # 0
                     /\ product.price >= priceRange.min
                     /\ product.price <= priceRange.max
                  THEN 600 ELSE 0
        base == 12 * categoryAffinity + 9 * brandAffinity + priced
    IN  IF product.hasTags /\ profile.hasStyleProfile
        THEN AddF(base, StyleScore(profile, product.tags))
        ELSE base

getContentBasedRecommendations(store, userId, products, limit) ==
    LET profile == getUserProfile(store, userId)
        scored == [i \in 1..Len(products) |->
                     [product |-> products[i], score |-> ContentScore(profile, products[i])]]
        recommendations == SelectSeq(scored, LAMBDA r : GtF(r.score, 0))
        sorted == SortDesc(recommendations, [r \in Range(recommendations) |-> r.score])
        top == Take(sorted, limit)
    IN  [i \in 1..Len(top) |-> top[i].product]

\* Contributions without the test of interaction.type
ContributionsOfAnyType(profile, similarity, products) ==
    LET liked == SelectSeq(profile.behaviorHistory, LAMBDA h : Knows(products, h.productId))
    IN  [i \in 1..Len(liked) |->
            [id |-> Find(products, liked[i].productId).id,
             score |-> similarity * liked[i].weight]]

\* What one similar user adds to productScores, in the order of the forEach:
\* a sequence of [id, score], score in 1/(10*SimScale*WeightScale)
Contributions(profile, similarity, products) ==
    LET liked == SelectSeq(profile.behaviorHistory,
                           LAMBDA h : /\ h.type \in {"purchase", "add_to_cart"}
                                      /\ Knows(products, h.productId))
    IN  [i \in 1..Len(liked) |->
            [id |-> Find(products, liked[i].productId).id,
             score |-> similarity * liked[i].weight]]

RECURSIVE AllContributions(_, _, _)
AllContributions(store, similarUsers, products) ==
    IF similarUsers = <<>> THEN <<>>
    ELSE Contributions(Get(store, Head(similarUsers).userId),
                       Head(similarUsers).similarity, products)
         \o AllContributions(store, Tail(similarUsers), products)

\* A Map filled by map.set(id, (map.get(id) || 0) + score) for each element of adds:
\* its entries [id, score] in insertion order
RECURSIVE Accumulate(_, _)
Accumulate(entries, adds) ==
    IF adds = <<>> THEN entries
    ELSE LET e == Head(adds)
             known == \E i \in 1..Len(entries) : entries[i].id = e.id
             at == CHOOSE i \in 1..Len(entries) : entries[i].id = e.id
         IN  Accumulate(IF known
                        THEN [entries EXCEPT ![at].score = @ + e.score]
                        ELSE Append(entries, e),
                        Tail(adds))

\* getCollaborativeRecommendations without the return for an empty similarUsers
getCollaborativeRecommendationsNoFallback(store, userId, products, limit) ==
    LET similarUsers == findSimilarUsers(store, userId, minSimilarUsers)
        productScores == Accumulate(<<>>, AllContributions(store, similarUsers, products))
        sorted == SortDesc(productScores, [e \in Range(productScores) |-> e.score])
        top == Take(sorted, limit)
    IN  [i \in 1..Len(top) |-> Find(products, top[i].id)]

getCollaborativeRecommendations(store, userId, products, limit) ==
    LET similarUsers == findSimilarUsers(store, userId, minSimilarUsers)
        productScores == Accumulate(<<>>, AllContributions(store, similarUsers, products))
        sorted == SortDesc(productScores, [e \in Range(productScores) |-> e.score])
        top == Take(sorted, limit)
    IN  IF Len(similarUsers) = 0
        THEN getContentBasedRecommendations(store, userId, products, limit)
        ELSE [i \in 1..Len(top) |-> Find(products, top[i].id)]

\* The rank scores of one list, weighted: element i of n (counted from 0) adds
\* weight * (n - i) / n.  As a count of 1/(10 * n * scale), scale the other list's length.
RankAdds(recs, weight, scale) ==
    [i \in 1..Len(recs) |->
        [id |-> recs[i].id, score |-> weight * (Len(recs) - (i - 1)) * scale]]

\* Math.ceil(limit * diversityFactor)
MaxPerCategory(limit) == (limit * diversityFactor + 9) \div 10

\* The first loop of applyDiversityFilter from element i on.  diverseRecs holds
\* indices into recommendations; usedCategories is a Set.
RECURSIVE DiversePass(_, _, _, _, _)
DiversePass(recommendations, limit, i, diverseRecs, usedCategories) ==
    IF i > Len(recommendations) \/ Len(diverseRecs) >= limit THEN diverseRecs
    ELSE LET category == recommendations[i].product.category
             categoryCount == Cardinality({c \in usedCategories : c = category})
         IN  IF categoryCount < MaxPerCategory(limit)
             THEN DiversePass(recommendations, limit, i + 1,
                              Append(diverseRecs, i), usedCategories \cup {category})
             ELSE DiversePass(recommendations, limit, i + 1, diverseRecs, usedCategories)

\* The second loop: fill with what diverseRecs does not include
RECURSIVE FillPass(_, _, _, _)
FillPass(recommendations, limit, i, diverseRecs) ==
    IF i > Len(recommendations) \/ Len(diverseRecs) >= limit THEN diverseRecs
    ELSE IF i \notin Range(diverseRecs)
         THEN FillPass(recommendations, limit, i + 1, Append(diverseRecs, i))
         ELSE FillPass(recommendations, limit, i + 1, diverseRecs)

\* applyDiversityFilter whose second loop pushes without looking at diverseRecs
applyDiversityFilterNoIncludes(recommendations, limit) ==
    LET first == DiversePass(recommendations, limit, 1, <<>>, {})
        filled == Take(first \o [i \in 1..Len(recommendations) |-> i], limit)
    IN  IF Len(recommendations) <= limit THEN recommendations
        ELSE [k \in 1..Len(filled) |-> recommendations[filled[k]]]

applyDiversityFilter(recommendations, limit) ==
    LET first == DiversePass(recommendations, limit, 1, <<>>, {})
        filled == Take(FillPass(recommendations, limit, 1, first), limit)
    IN  IF Len(recommendations) <= limit THEN recommendations
        ELSE [k \in 1..Len(filled) |-> recommendations[filled[k]]]

\* CombineRankings with the two weights exchanged
CombineRankingsExchanged(collaborativeRecs, contentBasedRecs, products) ==
    LET n == Max(Len(collaborativeRecs), 1)
        m == Max(Len(contentBasedRecs), 1)
        combinedScores == Accumulate(<<>>,
                            RankAdds(collaborativeRecs, 10 - hybridWeight, m)
                            \o RankAdds(contentBasedRecs, hybridWeight, n))
        sorted == SortDesc(combinedScores, [e \in Range(combinedScores) |-> e.score])
        found == SelectSeq(sorted, LAMBDA e : Knows(products, e.id))
    IN  [i \in 1..Len(found) |-> [product |-> Find(products, found[i].id), score |-> found[i].score]]

\* combinedScores sorted, each id with its product: the input of the diversity filter.
\* score is a count of 1/(10 * n * m), n and m the lengths of the two lists (1 for an
\* empty list, which adds nothing).
CombineRankings(collaborativeRecs, contentBasedRecs, products) ==
    LET n == Max(Len(collaborativeRecs), 1)
        m == Max(Len(contentBasedRecs), 1)
        combinedScores == Accumulate(<<>>,
                            RankAdds(collaborativeRecs, hybridWeight, m)
                            \o RankAdds(contentBasedRecs, 10 - hybridWeight, n))
        sorted == SortDesc(combinedScores, [e \in Range(combinedScores) |-> e.score])
        found == SelectSeq(sorted, LAMBDA e : Knows(products, e.id))
    IN  [i \in 1..Len(found) |-> [product |-> Find(products, found[i].id), score |-> found[i].score]]

SortedProducts(store, userId, products, limit) ==
    CombineRankings(getCollaborativeRecommendations(store, userId, products, limit * 2),
                    getContentBasedRecommendations(store, userId, products, limit * 2),
                    products)

getPersonalizedRecommendations(store, userId, products, limit) ==
    LET diverseRecommendations ==
            applyDiversityFilter(SortedProducts(store, userId, products, limit), limit)
    IN  [i \in 1..Len(diverseRecommendations) |-> diverseRecommendations[i].product]

\* The store after a recommendation call for userId, which reads getUserProfile(userId)
AfterRecommendations(store, userId) == Touch(store, userId)

-----------------------------------------------------------------------------
(* Contextual adaptation *)

BoostScale == 10000         \* a contextualBoost is a count of 1/BoostScale

\* boost *= tenths / 10 when the condition applies
Boosted(boost, applies, tenths) == IF applies THEN (boost * tenths) \div 10 ELSE boost

\* The contextualBoost applyContextualBoost computes for one product
ContextualBoost(product, context) ==
    LET tagged(tag) == product.hasTags /\ tag \in Range(product.tags)
        b1 == Boosted(BoostScale, context.timeOfDay = "morning" /\ tagged("work"), 12)
        b2 == Boosted(b1, context.timeOfDay = "evening" /\ tagged("casual"), 12)
        b3 == Boosted(b2, context.isWeekend /\ tagged("leisure"), 11)
        b4 == Boosted(b3, product.season = context.season, 13)
        b5 == Boosted(b4, product.category = "outerwear" /\ context.season = "winter", 14)
    IN  Boosted(b5, product.category = "swimwear" /\ context.season = "summer", 14)

\* {...product, contextualBoost: boost} for each product, as the pair of the two
applyContextualBoost(recommendations, context) ==
    [i \in 1..Len(recommendations) |->
        [product |-> recommendations[i],
         contextualBoost |-> ContextualBoost(recommendations[i], context)]]

\* getRecommendations(userId, {limit}) over the catalog, with contextualData = context
\* and realTimeAdaptation enabled
getRecommendations(store, userId, catalog, limit, context) ==
    LET recommendations ==
            applyContextualBoost(getPersonalizedRecommendations(store, userId, catalog, limit),
                                 context)
        sorted == SortDesc(recommendations,
                           [r \in Range(recommendations) |-> r.contextualBoost])
    IN  Take(sorted, limit)

-----------------------------------------------------------------------------
(* Persistence *)

Null == 0                   \* JSON null: false as a condition, 0 in arithmetic

\* JSON.stringify of one profile: Infinity is written as null
Stringify(profile) ==
    [profile EXCEPT !.priceRange.max = IF @ = Infinity THEN Null ELSE @]

saveUserProfiles(store) == [i \in 1..Len(store) |-> Stringify(store[i])]

\* enhanceUserProfile of a parsed profile: the sixteen fields it lists are copied, any
\* other field (preferredPriceRange) is left behind
enhanceUserProfile(profile) ==
    [profile EXCEPT !.hasPreferredPriceRange = FALSE,
                    !.preferredPriceRange = [min |-> 0, max |-> 0]]

\* loadUserProfiles: the Map a new engine builds from the stored item
loadUserProfiles(stored) == [i \in 1..Len(stored) |-> enhanceUserProfile(stored[i])]

-----------------------------------------------------------------------------
(* SecurityManager: rate limiting and lockout.  Times are in minutes. *)

\* config.rateLimits, the windows in minutes
rateLimits ==
    [textQueries |-> [requests |-> 30, window |-> 1],
     imageQueries |-> [requests |-> 10, window |-> 1],
     voiceQueries |-> [requests |-> 20, window |-> 1],
     apiCalls |-> [requests |-> 100, window |-> 1],
     globalRequests |-> [requests |-> 200, window |-> 5]]

\* setInterval periods of setupRateLimiting and setupThreatDetection, in minutes
rateCleanupInterval == 1
threatCleanupInterval == 10

\* config.threatDetection
maxFailedAttempts == 5
lockoutDuration == 5

\* The calls the model makes
RateTypes == {"imageQueries"}
Identifiers == {"global"}
RateKeys == RateTypes \X Identifiers

MinOf(s) == CHOOSE x \in Range(s) : \A y \in Range(s) : x <= y
MaxOf(S) == CHOOSE x \in S : \A y \in S : x >= y

\* The function f with key mapped to value, the key added when it is new
Put(f, key, value) == [k \in DOMAIN f \cup {key} |-> IF k = key THEN value ELSE f[k]]
\* The function f without the keys of gone
Delete(f, gone) == [k \in DOMAIN f \ gone |-> f[k]]

\* checkRateLimit(type, identifier) at time t: the value returned and the store left
checkRateLimit(store, type, identifier, t) ==
    IF type \notin DOMAIN rateLimits
    THEN [result |-> [allowed |-> TRUE], store |-> store]
    ELSE LET limit == rateLimits[type]
             key == <<type, identifier>>
             windowStart == t - limit.window
             entry == IF key \in DOMAIN store THEN store[key]
                      ELSE [requests |-> <<>>, firstRequest |-> t]
             requests == SelectSeq(entry.requests, LAMBDA timestamp : timestamp > windowStart)
         IN  IF Len(requests) >= limit.requests
             THEN [result |-> [allowed |-> FALSE, limit |-> limit.requests, remaining |-> 0,
                               resetTime |-> MinOf(requests) + limit.window,
                               retryAfter |-> MinOf(requests) + limit.window - t],
                   store |-> Put(store, key, [entry EXCEPT !.requests = requests])]
             ELSE [result |-> [allowed |-> TRUE, limit |-> limit.requests,
                               remaining |-> limit.requests - (Len(requests) + 1),
                               resetTime |-> t + limit.window],
                   store |-> Put(store, key, [entry EXCEPT !.requests = Append(requests, t)])]

cleanupRateLimitStore(store, t) ==
    LET maxWindow == MaxOf({rateLimits[type].window : type \in DOMAIN rateLimits})
    IN  Delete(store, {key \in DOMAIN store : store[key].firstRequest < t - maxWindow})

\* entry.lockedUntil && entry.lockedUntil > now
LockoutActive(entry, t) == entry.lockedUntil # Null /\ entry.lockedUntil > t

RecentFailures(entry, t) ==
    SelectSeq(entry.failedAttempts, LAMBDA timestamp : timestamp > t - lockoutDuration)

\* checkFailedAttempts without the test of lockedUntil
checkFailedAttemptsNoLockout(store, identifier, t) ==
    IF identifier \notin DOMAIN store
    THEN [result |-> [blocked |-> FALSE, blockUntil |-> Null, reason |-> ""], store |-> store]
    ELSE IF Len(RecentFailures(store[identifier], t)) >= maxFailedAttempts
    THEN [result |-> [blocked |-> TRUE, blockUntil |-> t + lockoutDuration,
                      reason |-> "too_many_failures"],
          store |-> [store EXCEPT ![identifier].lockedUntil = t + lockoutDuration]]
    ELSE [result |-> [blocked |-> FALSE, blockUntil |-> Null, reason |-> ""], store |-> store]

\* checkFailedAttempts(identifier) at time t: the value returned and the store left
checkFailedAttempts(store, identifier, t) ==
    IF identifier \notin DOMAIN store
    THEN [result |-> [blocked |-> FALSE, blockUntil |-> Null, reason |-> ""], store |-> store]
    ELSE IF LockoutActive(store[identifier], t)
    THEN [result |-> [blocked |-> TRUE, blockUntil |-> store[identifier].lockedUntil,
                      reason |-> "lockout_active"],
          store |-> store]
    ELSE IF Len(RecentFailures(store[identifier], t)) >= maxFailedAttempts
    THEN [result |-> [blocked |-> TRUE, blockUntil |-> t + lockoutDuration,
                      reason |-> "too_many_failures"],
          store |-> [store EXCEPT ![identifier].lockedUntil = t + lockoutDuration]]
    ELSE [result |-> [blocked |-> FALSE, blockUntil |-> Null, reason |-> ""], store |-> store]

recordFailedAttempt(store, identifier, t) ==
    LET entry == IF identifier \in DOMAIN store THEN store[identifier]
                 ELSE [failedAttempts |-> <<>>, lockedUntil |-> Null]
    IN  Put(store, identifier, [entry EXCEPT !.failedAttempts = Append(@, t)])

recordSuccessfulAttempt(store, identifier) ==
    IF identifier \in DOMAIN store
    THEN [store EXCEPT ![identifier] = [failedAttempts |-> <<>>, lockedUntil |-> Null]]
    ELSE store

cleanupThreatStore(store, t) ==
    LET cleanupThreshold == t - lockoutDuration * 2
        filtered == [id \in DOMAIN store |->
                        [store[id] EXCEPT !.failedAttempts =
                            SelectSeq(@, LAMBDA timestamp : timestamp > cleanupThreshold)]]
    IN  Delete(filtered,
               {id \in DOMAIN filtered :
                    /\ filtered[id].failedAttempts = <<>>
                    /\ (filtered[id].lockedUntil = Null \/ filtered[id].lockedUntil < t)})

\* detectThreats(input, type, {userId: identifier}) with threat detection enabled, for
\* an input that matches a suspicious or blocked pattern (high severity) or none
detectThreats(store, suspicious, identifier, t) ==
    LET failedAttempts == checkFailedAttempts(store, identifier, t)
        threats == (IF suspicious THEN <<"high">> ELSE <<>>)
                   \o (IF failedAttempts.result.blocked THEN <<"critical">> ELSE <<>>)
    IN  [result |-> [safe |-> threats = <<>>, threats |-> threats,
                     blocked |-> \E i \in 1..Len(threats) : threats[i] = "critical"],
         store |-> failedAttempts.store]

-----------------------------------------------------------------------------
(* SecurityManager: sessions.  Times are in hours. *)

maxSessionDuration == 24
sessionRotationInterval == 1

\* generateSecureId: 128 random bits, a value no earlier call returned
generateSecureId(count) == count + 1

HasSession(store, sessionId) == \E i \in 1..Len(store) : store[i].id = sessionId
SessionIndex(store, sessionId) == CHOOSE i \in 1..Len(store) : store[i].id = sessionId
RemoveAt(store, i) == SubSeq(store, 1, i - 1) \o SubSeq(store, i + 1, Len(store))

\* createSecureSession(userId): the session and the store it is set in
createSecureSession(store, count, userId, t) ==
    LET session == [id |-> generateSecureId(count), userId |-> userId, createdAt |-> t,
                    lastActivity |-> t, expiresAt |-> t + maxSessionDuration,
                    rotateAt |-> t + sessionRotationInterval]
    IN  [session |-> session, store |-> Append(store, session), issued |-> count + 1]

validateSessionNoRotationCheck(store, sessionId, t) ==
    IF ~HasSession(store, sessionId)
    THEN [result |-> [valid |-> FALSE, reason |-> "session_not_found"], store |-> store]
    ELSE LET i == SessionIndex(store, sessionId)
         IN  IF store[i].expiresAt < t
             THEN [result |-> [valid |-> FALSE, reason |-> "session_expired"],
                   store |-> RemoveAt(store, i)]
             ELSE [result |-> [valid |-> TRUE, reason |-> ""],
                   store |-> [store EXCEPT ![i].lastActivity = t]]

validateSession(store, sessionId, t) ==
    IF ~HasSession(store, sessionId)
    THEN [result |-> [valid |-> FALSE, reason |-> "session_not_found"], store |-> store]
    ELSE LET i == SessionIndex(store, sessionId)
         IN  IF store[i].expiresAt < t
             THEN [result |-> [valid |-> FALSE, reason |-> "session_expired"],
                   store |-> RemoveAt(store, i)]
             ELSE IF store[i].rotateAt < t
             THEN [result |-> [valid |-> FALSE, reason |-> "session_rotation_required"],
                   store |-> store]
             ELSE [result |-> [valid |-> TRUE, reason |-> ""],
                   store |-> [store EXCEPT ![i].lastActivity = t]]

\* rotateSession(oldSessionId): null (0 as the new id) for an unknown session
rotateSession(store, count, oldSessionId, t) ==
    IF ~HasSession(store, oldSessionId)
    THEN [newId |-> Null, store |-> store, issued |-> count]
    ELSE LET oldSession == store[SessionIndex(store, oldSessionId)]
             created == createSecureSession(store, count, oldSession.userId, t)
         IN  [newId |-> created.session.id,
              store |-> RemoveAt(created.store, SessionIndex(created.store, oldSessionId)),
              issued |-> created.issued]

\* The loop of rotateExpiredSessions from position i of the Map's entries: an entry
\* deleted is not visited, an entry set during the loop is visited at the end
RECURSIVE RotateFrom(_, _, _, _)
RotateFrom(store, count, i, t) ==
    IF i > Len(store) THEN [store |-> store, issued |-> count]
    ELSE IF store[i].rotateAt < t
    THEN LET rotated == rotateSession(store, count, store[i].id, t)
         IN  RotateFrom(rotated.store, rotated.issued, i, t)
    ELSE RotateFrom(store, count, i + 1, t)

rotateExpiredSessions(store, count, t) == RotateFrom(store, count, 1, t)

-----------------------------------------------------------------------------
(* ProductionAnalytics: the queues and sendBatch.  The performance queue stays *)
(* empty, no action of the model tracks a performance record.                  *)

batchSize == 10
maxRetries == 3

\* Math.pow(2, n)
RECURSIVE Pow2(_)
Pow2(n) == IF n = 0 THEN 1 ELSE 2 * Pow2(n - 1)

\* The constructor's init(): trackSessionStart pushes one event
AnalyticsInit ==
    /\ eventQueue = <<"session_start">>
    /\ errorQueue = <<>>
    /\ sends = {}
    /\ retryCount = <<>>
    /\ eventIds = 0

\* sendBatch(type, batch) up to its await of fetch.  batchId is the id generateEventId
\* returns, one never returned before.  first and resends are history fields: the
\* batchId of the call that sent the batch first, and the re-sends since.
sendBatch(count, type, batch) ==
    [batchId |-> count + 1, type |-> type, batch |-> batch, waits |-> "fetch", delay |-> 0,
     first |-> count + 1, resends |-> 0]

\* queue.splice(0, batchSize): the batch taken and the rest
Splice(queue) ==
    [batch |-> Take(queue, batchSize),
     rest |-> SubSeq(queue, Min(batchSize, Len(queue)) + 1, Len(queue))]

\* The catch block of sendBatch for the call s: a retry timer, or the batch dropped
Catch(s, counts) ==
    LET retries == IF s.batchId \in DOMAIN counts THEN counts[s.batchId] ELSE 0
    IN  IF retries < maxRetries
        THEN [retryCount |-> Put(counts, s.batchId, retries + 1),
              timer |-> {[s EXCEPT !.waits = "timer", !.delay = Pow2(retries)]}]
        ELSE [retryCount |-> Delete(counts, {s.batchId}), timer |-> {}]

-----------------------------------------------------------------------------
(* A/B testing.  The constructor's default configures no experiment; the engine *)
(* modelled is constructed with config.experiments = abExperiments.             *)

\* Object.keys(experiment.variants) of every configured experiment
abExperiments == [recs |-> <<"compact", "wide">>]

defaultVariant == "control"

\* The call arguments: user ids, and experiment names of which "unknown" is not configured
ABUsers == {"u1", "u2", "u3"}
ExperimentNames == {"recs", "unknown"}
Metrics == {"click", "purchase"}

\* input.charCodeAt(i), for the strings that are hashed
CharCodes(str) ==
    CASE str = "u1" -> <<117, 49>>
      [] str = "u2" -> <<117, 50>>
      [] str = "u3" -> <<117, 51>>
      [] str = "recs" -> <<114, 101, 99, 115>>

\* A 32-bit integer is kept as two 16-bit halves, [hi, lo], of its value modulo 2^32
Half == 65536

\* hash = ((hash << 5) - hash) + char; hash = hash & hash
\* ToInt32 of 31 * hash + char
RECURSIVE HashFrom(_, _, _)
HashFrom(hash, codes, i) ==
    IF i > Len(codes) THEN hash
    ELSE LET lo == hash.lo * 31 + codes[i]
             hi == hash.hi * 31 + lo \div Half
         IN  HashFrom([hi |-> hi % Half, lo |-> lo % Half], codes, i + 1)

\* Math.abs of the 32-bit integer: the halves of a non-negative number up to 2^31
Abs32(hash) ==
    IF hash.hi < Half \div 2 THEN hash
    ELSE [hi |-> (Half - 1 - hash.hi + (IF hash.lo = 0 THEN 1 ELSE 0)) % Half,
          lo |-> (Half - hash.lo) % Half]

hashUserId(codes) == Abs32(HashFrom([hi |-> 0, lo |-> 0], codes, 1))

\* hash % n
HashMod(hash, n) == ((hash.hi % n) * (Half % n) + hash.lo) % n

\* setupABTesting: the experiments Map.  participants is the Map userId -> variant,
\* results.variants the object variant -> list of results.
setupABTesting ==
    [name \in DOMAIN abExperiments |->
        [variants |-> abExperiments[name], participants |-> <<>>,
         results |-> [control |-> <<>>, variants |-> <<>>]]]

\* getExperimentVariant(experimentName, userId): the variant returned and the Map after
getExperimentVariant(exps, experimentName, userId) ==
    IF experimentName \notin DOMAIN exps
    THEN [variant |-> defaultVariant, experiments |-> exps]
    ELSE LET experiment == exps[experimentName]
             hash == hashUserId(CharCodes(userId) \o CharCodes(experimentName))
             variants == <<"control">> \o experiment.variants
             variant == variants[HashMod(hash, Len(variants)) + 1]
         IN  IF userId \in DOMAIN experiment.participants
             THEN [variant |-> experiment.participants[userId], experiments |-> exps]
             ELSE [variant |-> variant,
                   experiments |->
                       [exps EXCEPT ![experimentName].participants =
                                        Put(experiment.participants, userId, variant)]]

\* trackExperimentResult with every result filed under control
trackExperimentResultUnderControl(exps, experimentName, userId, metric, value, t) ==
    IF experimentName \notin DOMAIN exps THEN exps
    ELSE IF userId \notin DOMAIN exps[experimentName].participants THEN exps
    ELSE [exps EXCEPT ![experimentName].results.control =
                          Append(@, [userId |-> userId, metric |-> metric, value |-> value,
                                     timestamp |-> t])]

\* trackExperimentResult(experimentName, userId, metric, value) at time t: the Map after
trackExperimentResult(exps, experimentName, userId, metric, value, t) ==
    IF experimentName \notin DOMAIN exps THEN exps
    ELSE LET experiment == exps[experimentName]
             result == [userId |-> userId, metric |-> metric, value |-> value,
                        timestamp |-> t]
         IN  IF userId \notin DOMAIN experiment.participants THEN exps
             ELSE LET variant == experiment.participants[userId]
                      filed == IF variant \in DOMAIN experiment.results.variants
                               THEN experiment.results.variants[variant]
                               ELSE <<>>
                  IN  IF variant = "control"
                      THEN [exps EXCEPT ![experimentName].results.control =
                                            Append(@, result)]
                      ELSE [exps EXCEPT ![experimentName].results.variants =
                                            Put(@, variant, Append(filed, result))]

-----------------------------------------------------------------------------
(* Inputs *)

Purchase1 == Interaction("purchase", 1, "clothing", "b1", 30, "", FALSE, <<>>)
ViewStyle == Interaction("view", 3, "", "", 0, "casual", TRUE, <<"casual">>)
Cart2 == Interaction("add_to_cart", 2, "shoes", "b1", 20, "", FALSE, <<>>)

\* The calls of updateUserProfile a run of Spec makes
Inputs ==
    {<<"u1", Purchase1>>, <<"u1", ViewStyle>>, <<"u2", ViewStyle>>, <<"u2", Cart2>>}

\* The calls a run of SpecRecord makes: every type, and every optional field absent somewhere
RecordInteractions ==
    {Purchase1, ViewStyle, Cart2,
     [Interaction("click", 4, "shoes", "b2", 0, "formal", FALSE, <<>>)
        EXCEPT !.season = "winter", !.timeOfDay = "morning"],
     [Interaction("share", 5, "clothing", "b2", 10, "", TRUE, <<>>) EXCEPT !.timestampAge = 2],
     Interaction("wishlist", 2, "", "b2", 40, "", TRUE, <<"work", "casual">>)}

RecordInputs == Users \X RecordInteractions

P1 == Product(1, "clothing", "b1", 30, TRUE, <<"casual">>)
P2 == Product(2, "shoes", "b1", 20, TRUE, <<>>)
P3 == Product(3, "clothing", "b2", 25, FALSE, <<>>)
P4 == Product(4, "clothing", "b2", 40, TRUE, <<"work", "casual">>)
P5 == Product(5, "shoes", "b2", 10, FALSE, <<>>)
P1Again == Product(1, "shoes", "b2", 35, FALSE, <<>>)

\* The calls of updateUserProfile a run of SpecCollaborative makes
Purchase3 == Interaction("purchase", 3, "clothing", "b2", 25, "", FALSE, <<>>)
CollaborativeInputs ==
    {<<"u2", Purchase1>>, <<"u2", Cart2>>, <<"u2", ViewStyle>>,
     <<"u3", Purchase1>>, <<"u3", Purchase3>>}

\* A coat for the winter and sandals for the summer
Coat == [Product(6, "outerwear", "b1", 35, TRUE, <<"work">>) EXCEPT !.season = "winter"]
Sandals == [Product(7, "shoes", "b2", 15, TRUE, <<"leisure", "casual">>) EXCEPT !.season = "summer"]

\* this.productCatalog: the values of the Map in insertion order
Catalog == <<P1, P4, Coat, Sandals, P3>>

\* this.contextualData as updateContextualData writes it
ContextualData ==
    {[timeOfDay |-> "morning", season |-> "winter", isWeekend |-> FALSE],
     [timeOfDay |-> "evening", season |-> "summer", isWeekend |-> TRUE]}

\* Three of one category ahead of two of another; one category only, and an id twice
CandidateLists ==
    {<<P1, P3, P4, P2, P5>>, <<P3, P1, P4, P1Again>>}

Limits == {2, 4}

-----------------------------------------------------------------------------
(* The state machine *)

NoCall ==
    [op |-> "init", userId |-> "", userId2 |-> "", interaction |-> ViewStyle,
     products |-> <<>>, limit |-> 0, value |-> <<>>]

Init ==
    /\ userProfiles = <<>>
    /\ localStorage = <<>>
    /\ ret = NoCall
    /\ now = 0
    /\ rateLimitStore = <<>>
    /\ threatStore = <<>>
    /\ granted = [key \in RateKeys |-> <<>>]
    /\ sessionStore = <<>>
    /\ issued = 0
    /\ experiments = setupABTesting
    /\ AnalyticsInit

\* The number of updateUserProfile calls so far
Recorded == SumOver(1..Len(userProfiles),
                    [i \in 1..Len(userProfiles) |-> userProfiles[i].totalInteractions])

\* RecordInteraction without the call of saveUserProfiles
RecordInteractionNoSave(userId, interaction, ctx) ==
    LET profile == updateUserProfile(getUserProfile(userProfiles, userId), interaction, ctx)
        store == Set(Touch(userProfiles, userId), profile)
    IN  /\ userProfiles' = store
        /\ ret' = [NoCall EXCEPT !.op = "updateUserProfile", !.userId = userId,
                                 !.interaction = interaction, !.value = profile]
        /\ UNCHANGED <<localStorage, securityVars, experiments, analyticsVars>>

\* trackUserInteraction(userId, interaction) / updateUserProfile(userId, interaction)
RecordInteraction(userId, interaction, ctx) ==
    LET profile == updateUserProfile(getUserProfile(userProfiles, userId), interaction, ctx)
        store == Set(Touch(userProfiles, userId), profile)
    IN  /\ userProfiles' = store
        /\ localStorage' = saveUserProfiles(store)
        /\ ret' = [NoCall EXCEPT !.op = "updateUserProfile", !.userId = userId,
                                 !.interaction = interaction, !.value = profile]
        /\ UNCHANGED <<securityVars, experiments, analyticsVars>>

CalculateUserSimilarity(userId1, userId2) ==
    /\ userProfiles' = Touch(Touch(userProfiles, userId1), userId2)
    /\ ret' = [NoCall EXCEPT !.op = "calculateUserSimilarity", !.userId = userId1,
                             !.userId2 = userId2,
                             !.value = calculateUserSimilarity(userProfiles, userId1, userId2)]
    /\ UNCHANGED <<localStorage, securityVars, experiments, analyticsVars>>

\* calculateCategorySimilarity(profile1, profile2) on the profiles of two users, a
\* user without a profile standing for a new profile object
CalculateCategorySimilarity(userId1, userId2) ==
    /\ ret' = [NoCall EXCEPT !.op = "calculateCategorySimilarity", !.userId = userId1,
                             !.userId2 = userId2,
                             !.value = calculateCategorySimilarity(
                                           getUserProfile(userProfiles, userId1),
                                           getUserProfile(userProfiles, userId2))]
    /\ UNCHANGED <<userProfiles, localStorage, securityVars, experiments, analyticsVars>>

FindSimilarUsers(userId, limit) ==
    /\ userProfiles' = AfterFindSimilarUsers(userProfiles, userId)
    /\ ret' = [NoCall EXCEPT !.op = "findSimilarUsers", !.userId = userId, !.limit = limit,
                             !.value = findSimilarUsers(userProfiles, userId, limit)]
    /\ UNCHANGED <<localStorage, securityVars, experiments, analyticsVars>>

GetContentBasedRecommendations(userId, products, limit) ==
    /\ userProfiles' = AfterRecommendations(userProfiles, userId)
    /\ ret' = [NoCall EXCEPT !.op = "getContentBasedRecommendations", !.userId = userId,
                             !.products = products, !.limit = limit,
                             !.value = getContentBasedRecommendations(userProfiles, userId, products, limit)]
    /\ UNCHANGED <<localStorage, securityVars, experiments, analyticsVars>>

GetCollaborativeRecommendations(userId, products, limit) ==
    /\ userProfiles' = AfterRecommendations(userProfiles, userId)
    /\ ret' = [NoCall EXCEPT !.op = "getCollaborativeRecommendations", !.userId = userId,
                             !.products = products, !.limit = limit,
                             !.value = getCollaborativeRecommendations(userProfiles, userId, products, limit)]
    /\ UNCHANGED <<localStorage, securityVars, experiments, analyticsVars>>

GetPersonalizedRecommendations(userId, products, limit) ==
    /\ userProfiles' = AfterRecommendations(userProfiles, userId)
    /\ ret' = [NoCall EXCEPT !.op = "getPersonalizedRecommendations", !.userId = userId,
                             !.products = products, !.limit = limit,
                             !.value = getPersonalizedRecommendations(userProfiles, userId, products, limit)]
    /\ UNCHANGED <<localStorage, securityVars, experiments, analyticsVars>>

\* Recording, and the three recommendation calls
NextRecommend ==
    \/ \E in \in Inputs, ctx \in Contexts :
          Recorded < MaxInteractions /\ RecordInteraction(in[1], in[2], ctx)
    \/ \E u \in Users, products \in CandidateLists, limit \in Limits :
          GetPersonalizedRecommendations(u, products, limit)

Spec == Init /\ [][NextRecommend]_vars

\* Recording, and the content-based and the collaborative call
NextScore ==
    \/ \E in \in Inputs, ctx \in Contexts :
          Recorded < MaxScored /\ RecordInteraction(in[1], in[2], ctx)
    \/ \E u \in Users, products \in CandidateLists, limit \in Limits :
          GetContentBasedRecommendations(u, products, limit)
    \/ \E u \in Users, products \in CandidateLists, limit \in Limits :
          GetCollaborativeRecommendations(u, products, limit)

SpecScore == Init /\ [][NextScore]_vars

\* Recording, and the two similarity calls
NextSimilarity ==
    \/ \E in \in Inputs, ctx \in Contexts :
          Recorded < MaxCompared /\ RecordInteraction(in[1], in[2], ctx)
    \/ \E u1 \in Users, u2 \in Users : CalculateUserSimilarity(u1, u2)
    \/ \E u \in Users, limit \in {1, minSimilarUsers} : FindSimilarUsers(u, limit)

SpecSimilarity == Init /\ [][NextSimilarity]_vars

\* Recording alone, over every kind of interaction
NextRecord ==
    \E in \in RecordInputs, ctx \in Contexts :
        Recorded < MaxRecorded /\ RecordInteraction(in[1], in[2], ctx)

SpecRecord == Init /\ [][NextRecord]_vars

\* The page is loaded again: a new engine whose init runs loadUserProfiles.  The A/B
\* participants of the engine before are not kept.
Reload ==
    /\ userProfiles' = loadUserProfiles(localStorage)
    /\ experiments' = setupABTesting
    /\ ret' = [NoCall EXCEPT !.op = "loadUserProfiles"]
    /\ UNCHANGED <<localStorage, securityVars, analyticsVars>>

\* Recording and reloads
NextReload ==
    \/ \E in \in Inputs, ctx \in Contexts :
          Recorded < MaxRecorded /\ RecordInteraction(in[1], in[2], ctx)
    \/ Reload

SpecReload == Init /\ [][NextReload]_vars

\* Recording, and every query with no candidate product
NextEmpty ==
    \/ \E in \in Inputs, ctx \in Contexts :
          Recorded < MaxInteractions /\ RecordInteraction(in[1], in[2], ctx)
    \/ \E u \in Users, limit \in Limits : GetContentBasedRecommendations(u, <<>>, limit)
    \/ \E u \in Users, limit \in Limits : GetCollaborativeRecommendations(u, <<>>, limit)
    \/ \E u \in Users, limit \in Limits : GetPersonalizedRecommendations(u, <<>>, limit)
    \/ \E u \in Users, limit \in Limits : FindSimilarUsers(u, limit)

SpecEmpty == Init /\ [][NextEmpty]_vars

\* The interactions of RecordInteractions that name a category and no season
CategoryInteractions ==
    {in \in RecordInteractions : in.category # "" /\ in.season = ""}

\* Recording interactions with a category, and the category similarity
NextCategory ==
    \/ \E u \in Users, in \in CategoryInteractions, ctx \in Contexts :
          Recorded < MaxRecorded /\ RecordInteraction(u, in, ctx)
    \/ \E u1 \in Users, u2 \in Users : CalculateCategorySimilarity(u1, u2)

SpecCategory == Init /\ [][NextCategory]_vars

GetRecommendations(userId, catalog, limit, context) ==
    /\ userProfiles' = AfterRecommendations(userProfiles, userId)
    /\ ret' = [NoCall EXCEPT !.op = "getRecommendations", !.userId = userId,
                             !.products = catalog, !.limit = limit,
                             !.value = [context |-> context,
                                        recommendations |->
                                            getRecommendations(userProfiles, userId, catalog,
                                                               limit, context)]]
    /\ UNCHANGED <<localStorage, securityVars, experiments, analyticsVars>>

\* Recording, and getRecommendations over the catalog
NextContext ==
    \/ \E in \in Inputs, ctx \in Contexts :
          Recorded < MaxRecorded /\ RecordInteraction(in[1], in[2], ctx)
    \/ \E u \in Users, limit \in Limits, context \in ContextualData :
          GetRecommendations(u, Catalog, limit, context)

SpecContext == Init /\ [][NextContext]_vars

\* The store after n calls updateUserProfile(userId, interaction)
RECURSIVE RecordTimes(_, _, _, _)
RecordTimes(store, userId, interaction, n) ==
    IF n = 0 THEN store
    ELSE LET ctx == CHOOSE c \in Contexts : TRUE
             profile == updateUserProfile(getUserProfile(store, userId), interaction, ctx)
         IN  RecordTimes(Set(Touch(store, userId), profile), userId, interaction, n - 1)

\* An engine in which u1 has made PurchasesBefore purchases
InitLiked ==
    /\ userProfiles = RecordTimes(<<>>, "u1", Purchase1, PurchasesBefore)
    /\ localStorage = saveUserProfiles(userProfiles)
    /\ ret = NoCall
    /\ now = 0
    /\ rateLimitStore = <<>>
    /\ threatStore = <<>>
    /\ granted = [key \in RateKeys |-> <<>>]
    /\ sessionStore = <<>>
    /\ issued = 0
    /\ experiments = setupABTesting
    /\ AnalyticsInit

\* Recording for two more users, and the collaborative call for u1
NextCollaborative ==
    \/ \E in \in CollaborativeInputs, ctx \in Contexts :
          Recorded < PurchasesBefore + MaxLiked /\ RecordInteraction(in[1], in[2], ctx)
    \/ \E products \in {<<P1, P3, P4, P2, P5>>, <<P1, P4, P2, P5>>}, limit \in Limits :
          GetCollaborativeRecommendations("u1", products, limit)

SpecCollaborative == InitLiked /\ [][NextCollaborative]_vars

\* Recording, and the hybrid call for three of five products of two categories
NextDiversity ==
    \/ \E in \in Inputs, ctx \in Contexts :
          Recorded < MaxRecorded /\ RecordInteraction(in[1], in[2], ctx)
    \/ \E u \in Users : GetPersonalizedRecommendations(u, <<P1, P3, P4, P2, P5>>, 3)

SpecDiversity == Init /\ [][NextDiversity]_vars

-----------------------------------------------------------------------------
(* The SecurityManager's state machine *)

SecurityCall(op, identifier, value) ==
    [NoCall EXCEPT !.op = op, !.userId = identifier, !.value = value]

\* A minute passes
Tick(bound) ==
    /\ now < bound
    /\ now' = now + 1
    /\ granted' = [key \in RateKeys |->
                     SelectSeq(granted[key],
                               LAMBDA timestamp : timestamp > now + 1 - rateLimits[key[1]].window)]
    /\ UNCHANGED <<engineVars, experiments, analyticsVars, sessionVars, ret, rateLimitStore, threatStore>>

CheckRateLimit(type, identifier) ==
    LET call == checkRateLimit(rateLimitStore, type, identifier, now)
    IN  /\ rateLimitStore' = call.store
        /\ ret' = SecurityCall("checkRateLimit", identifier, call.result)
        /\ granted' = IF call.result.allowed
                      THEN [granted EXCEPT ![<<type, identifier>>] = Append(@, now)]
                      ELSE granted
        /\ UNCHANGED <<engineVars, experiments, analyticsVars, sessionVars, now, threatStore>>

\* The timer of setupRateLimiting fires
CleanupRateLimitStore ==
    /\ now > 0
    /\ now % rateCleanupInterval = 0
    /\ rateLimitStore' = cleanupRateLimitStore(rateLimitStore, now)
    /\ ret' = SecurityCall("cleanupRateLimitStore", "", <<>>)
    /\ UNCHANGED <<engineVars, experiments, analyticsVars, sessionVars, now, threatStore, granted>>

\* The failures the entry of an identifier holds
Failures(identifier) ==
    IF identifier \in DOMAIN threatStore THEN Len(threatStore[identifier].failedAttempts) ELSE 0

RecordFailedAttempt(identifier) ==
    /\ Failures(identifier) < MaxFailures
    /\ threatStore' = recordFailedAttempt(threatStore, identifier, now)
    /\ ret' = SecurityCall("recordFailedAttempt", identifier, <<>>)
    /\ UNCHANGED <<engineVars, experiments, analyticsVars, sessionVars, now, rateLimitStore, granted>>

RecordSuccessfulAttempt(identifier) ==
    /\ threatStore' = recordSuccessfulAttempt(threatStore, identifier)
    /\ ret' = SecurityCall("recordSuccessfulAttempt", identifier, <<>>)
    /\ UNCHANGED <<engineVars, experiments, analyticsVars, sessionVars, now, rateLimitStore, granted>>

CheckFailedAttempts(identifier) ==
    LET call == checkFailedAttempts(threatStore, identifier, now)
    IN  /\ threatStore' = call.store
        /\ ret' = SecurityCall("checkFailedAttempts", identifier, call.result)
        /\ UNCHANGED <<engineVars, experiments, analyticsVars, sessionVars, now, rateLimitStore, granted>>

DetectThreats(suspicious, identifier) ==
    LET call == detectThreats(threatStore, suspicious, identifier, now)
    IN  /\ threatStore' = call.store
        /\ ret' = SecurityCall("detectThreats", identifier, call.result)
        /\ UNCHANGED <<engineVars, experiments, analyticsVars, sessionVars, now, rateLimitStore, granted>>

\* The timer of setupThreatDetection fires
CleanupThreatStore ==
    /\ now > 0
    /\ now % threatCleanupInterval = 0
    /\ threatStore' = cleanupThreatStore(threatStore, now)
    /\ ret' = SecurityCall("cleanupThreatStore", "", <<>>)
    /\ UNCHANGED <<engineVars, experiments, analyticsVars, sessionVars, now, rateLimitStore, granted>>

NextRateLimit ==
    \/ Tick(MaxRateTime)
    \/ \E type \in RateTypes, identifier \in Identifiers : CheckRateLimit(type, identifier)
    \/ CleanupRateLimitStore

SpecRateLimit == Init /\ [][NextRateLimit]_vars

NextThreat ==
    \/ Tick(MaxThreatTime)
    \/ \E identifier \in Identifiers : RecordFailedAttempt(identifier)
    \/ \E identifier \in Identifiers : RecordSuccessfulAttempt(identifier)
    \/ \E identifier \in Identifiers : CheckFailedAttempts(identifier)
    \/ \E suspicious \in BOOLEAN, identifier \in Identifiers : DetectThreats(suspicious, identifier)
    \/ CleanupThreatStore

SpecThreat == Init /\ [][NextThreat]_vars

\* An hour passes
Hour(bound) ==
    /\ now % maxSessionDuration < bound
    /\ now' = now + 1
    /\ UNCHANGED <<engineVars, experiments, analyticsVars, ret, rateLimitStore, threatStore, granted, sessionVars>>

\* A day passes in which no method is called and no timer fires (the page is suspended)
Day ==
    /\ now < maxSessionDuration
    /\ now' = now + maxSessionDuration
    /\ UNCHANGED <<engineVars, experiments, analyticsVars, ret, rateLimitStore, threatStore, granted, sessionVars>>

SessionCall(op, sessionId, value) ==
    [NoCall EXCEPT !.op = op, !.limit = sessionId, !.value = value]

CreateSecureSession(userId) ==
    LET call == createSecureSession(sessionStore, issued, userId, now)
    IN  /\ Len(sessionStore) < MaxSessions
        /\ issued < MaxIssued
        /\ sessionStore' = call.store
        /\ issued' = call.issued
        /\ ret' = SessionCall("createSecureSession", call.session.id, call.session)
        /\ UNCHANGED <<engineVars, experiments, analyticsVars, now, rateLimitStore, threatStore, granted>>

ValidateSession(sessionId) ==
    LET call == validateSession(sessionStore, sessionId, now)
    IN  /\ sessionStore' = call.store
        /\ ret' = SessionCall("validateSession", sessionId, call.result)
        /\ UNCHANGED <<engineVars, experiments, analyticsVars, now, rateLimitStore, threatStore, granted, issued>>

RotateSession(oldSessionId) ==
    LET call == rotateSession(sessionStore, issued, oldSessionId, now)
    IN  /\ issued < MaxIssued
        /\ sessionStore' = call.store
        /\ issued' = call.issued
        /\ ret' = SessionCall("rotateSession", oldSessionId, call.newId)
        /\ UNCHANGED <<engineVars, experiments, analyticsVars, now, rateLimitStore, threatStore, granted>>

\* The timer of setupSessionSecurity fires
RotateExpiredSessions ==
    LET call == rotateExpiredSessions(sessionStore, issued, now)
    IN  /\ now > 0
        /\ now % sessionRotationInterval = 0
        /\ call.issued <= MaxIssued
        /\ sessionStore' = call.store
        /\ issued' = call.issued
        /\ ret' = SessionCall("rotateExpiredSessions", 0, <<>>)
        /\ UNCHANGED <<engineVars, experiments, analyticsVars, now, rateLimitStore, threatStore, granted>>

NextSession ==
    \/ Hour(MaxSessionTime)
    \/ Day
    \/ \E userId \in Users : CreateSecureSession(userId)
    \/ \E sessionId \in 1..MaxIssued : ValidateSession(sessionId)
    \/ \E sessionId \in 1..MaxIssued : RotateSession(sessionId)
    \/ RotateExpiredSessions

SpecSession == Init /\ [][NextSession]_vars

-----------------------------------------------------------------------------
(* ProductionAnalytics' state machine *)

\* window 'error' event: trackError of a javascript_error, severity medium
TrackError ==
    /\ Len(errorQueue) < MaxQueued
    /\ eventIds < MaxActivity
    /\ errorQueue' = Append(errorQueue, "javascript_error")
    /\ UNCHANGED <<engineVars, securityVars, experiments, ret, eventQueue, sends, retryCount,
                   eventIds>>

\* The timer of startBatchProcessor fires: processBatches
ProcessBatches ==
    LET events == Len(eventQueue) >= batchSize
        errors == Len(errorQueue) > 0
        eventSend == sendBatch(eventIds, "events", Splice(eventQueue).batch)
        errorSend == sendBatch(eventIds + (IF events THEN 1 ELSE 0), "errors",
                               Splice(errorQueue).batch)
    IN  /\ eventIds + 2 <= MaxBatches
        /\ eventQueue' = IF events THEN Splice(eventQueue).rest ELSE eventQueue
        /\ errorQueue' = IF errors THEN Splice(errorQueue).rest ELSE errorQueue
        /\ sends' = sends \cup (IF events THEN {eventSend} ELSE {})
                          \cup (IF errors THEN {errorSend} ELSE {})
        /\ eventIds' = eventIds + (IF events THEN 1 ELSE 0) + (IF errors THEN 1 ELSE 0)
        /\ UNCHANGED <<engineVars, securityVars, experiments, ret, retryCount>>

\* The fetch of the sendBatch call s resolves with response.ok: the patched fetch
\* tracks the call, sendBatch deletes the retry count
FetchResolves(s) ==
    /\ s.waits = "fetch"
    /\ eventQueue' = Append(eventQueue, "api_call")
    /\ retryCount' = Delete(retryCount, {s.batchId})
    /\ sends' = sends \ {s}
    /\ UNCHANGED <<engineVars, securityVars, experiments, ret, errorQueue, eventIds>>

\* The fetch of the sendBatch call s rejects (the endpoint is unreachable): the
\* patched fetch tracks the call and a network_error, which is critical and flushed
\* at once by a sendBatch call of its own; then the catch block of s runs
FetchRejects(s) ==
    LET tracked == Splice(Append(errorQueue, "network_error"))
        caught == Catch(s, retryCount)
    IN  /\ s.waits = "fetch"
        /\ eventIds < MaxBatches
        /\ eventQueue' = Append(eventQueue, "api_call")
        /\ errorQueue' = tracked.rest
        /\ eventIds' = eventIds + 1
        /\ retryCount' = caught.retryCount
        /\ sends' = ((sends \ {s}) \cup caught.timer)
                       \cup {sendBatch(eventIds, "errors", tracked.batch)}
        /\ UNCHANGED <<engineVars, securityVars, experiments, ret>>

\* The retry timer of s fires: sendBatch(type, batch) is called again
RetryTimer(s) ==
    /\ s.waits = "timer"
    /\ eventIds < MaxBatches
    /\ sends' = (sends \ {s})
                   \cup {[sendBatch(eventIds, s.type, s.batch)
                            EXCEPT !.first = s.first, !.resends = s.resends + 1]}
    /\ eventIds' = eventIds + 1
    /\ UNCHANGED <<engineVars, securityVars, experiments, ret, eventQueue, errorQueue,
                   retryCount>>

NextAnalytics ==
    \/ TrackError
    \/ ProcessBatches
    \/ \E s \in sends : FetchResolves(s)
    \/ \E s \in sends : FetchRejects(s)
    \/ \E s \in sends : RetryTimer(s)

SpecAnalytics == Init /\ [][NextAnalytics]_vars

-----------------------------------------------------------------------------
(* The A/B testing state machine *)

\* The results filed under one variant of an experiment
ResultsOf(exps, experimentName, variant) ==
    LET results == exps[experimentName].results
    IN  IF variant = "control" THEN results.control
        ELSE IF variant \in DOMAIN results.variants THEN results.variants[variant]
        ELSE <<>>

\* The variants an experiment assigns
VariantsOf(exps, experimentName) ==
    {"control"} \cup Range(exps[experimentName].variants)

\* The number of results filed in all experiments
Tracked ==
    LET filed == UNION {{<<n, v>> : v \in VariantsOf(experiments, n)} :
                           n \in DOMAIN experiments}
    IN  SumOver(filed, [p \in filed |-> Len(ResultsOf(experiments, p[1], p[2]))])

GetExperimentVariant(experimentName, userId) ==
    LET call == getExperimentVariant(experiments, experimentName, userId)
    IN  /\ experiments' = call.experiments
        /\ ret' = [NoCall EXCEPT !.op = "getExperimentVariant", !.userId = userId,
                                 !.userId2 = experimentName, !.value = call.variant]
        /\ UNCHANGED <<engineVars, securityVars, analyticsVars>>

TrackExperimentResult(experimentName, userId, metric, value) ==
    /\ Tracked < MaxResults
    /\ experiments' = trackExperimentResult(experiments, experimentName, userId, metric,
                                            value, now)
    /\ ret' = [NoCall EXCEPT !.op = "trackExperimentResult", !.userId = userId,
                             !.userId2 = experimentName, !.value = metric, !.limit = value]
    /\ UNCHANGED <<engineVars, securityVars, analyticsVars>>

NextExperiment ==
    \/ \E experimentName \in ExperimentNames, userId \in ABUsers :
          GetExperimentVariant(experimentName, userId)
    \/ \E experimentName \in ExperimentNames, userId \in ABUsers, metric \in Metrics :
          TrackExperimentResult(experimentName, userId, metric, 1)

SpecExperiment == Init /\ [][NextExperiment]_vars

-----------------------------------------------------------------------------
(* Properties *)

IsCall(op) == ret.op = op

\* The number of products of a category in a list of products
CountCategory(products, category) ==
    Cardinality({i \in 1..Len(products) : products[i].category = category})

\* C1: getPersonalizedRecommendations never returns more than `limit` products and
\* never returns the same product id twice.
C1_AtMostLimitNoDuplicate ==
    IsCall("getPersonalizedRecommendations") =>
        /\ Len(ret.value) <= ret.limit
        /\ \A i, j \in 1..Len(ret.value) : i # j => ret.value[i].id # ret.value[j].id

\* C1 witness: a hybrid call that found a similar user, had more scored products than
\* `limit` and returned `limit` of them.
C1_Witness ==
    /\ IsCall("getPersonalizedRecommendations")
    /\ findSimilarUsers(userProfiles, ret.userId, minSimilarUsers) # <<>>
    /\ Len(SortedProducts(userProfiles, ret.userId, ret.products, ret.limit)) > ret.limit
    /\ Len(ret.value) = ret.limit

\* C2: in the output of the hybrid call no category occurs more than
\* ceil(limit * diversityFactor) times, unless the scored products of the other
\* categories are too few to fill the remaining slots.
C2_CategoryCap ==
    IsCall("getPersonalizedRecommendations") =>
        LET pool == SortedProducts(userProfiles, ret.userId, ret.products, ret.limit)
            scored == [i \in 1..Len(pool) |-> pool[i].product]
            cap == (ret.limit * diversityFactor + 9) \div 10
        IN  \A c \in Categories :
                CountCategory(ret.value, c) > cap =>
                    Len(scored) - CountCategory(scored, c) < ret.limit - cap

\* C3: the value calculateUserSimilarity returns is a number from 0 to 1.
C3_SimilarityBounded ==
    IsCall("calculateUserSimilarity") =>
        /\ IsNumber(ret.value)
        /\ 0 <= ret.value
        /\ ret.value <= 10 * SimScale

\* C4: similarity(A, B) equals similarity(B, A).
C4_SimilaritySymmetric ==
    IsCall("calculateUserSimilarity") =>
        EqF(ret.value, calculateUserSimilarity(userProfiles, ret.userId2, ret.userId))

\* The categoryAffinities of a user, all 0 while the user has no profile
AffinitiesOf(store, userId) ==
    IF Has(store, userId) THEN Get(store, userId).categoryAffinities ELSE ZeroOn(Categories)

\* C5: every category affinity is >= 0, none ever decreases, and a step changes only
\* the affinity of the category that the interaction it records references, in the
\* profile of the user it records it for.
C5_AffinityMonotonic ==
    [][\A u \in Users : \A c \in Categories :
          /\ AffinitiesOf(userProfiles', u)[c] >= 0
          /\ AffinitiesOf(userProfiles', u)[c] >= AffinitiesOf(userProfiles, u)[c]
          /\ AffinitiesOf(userProfiles', u)[c] # AffinitiesOf(userProfiles, u)[c] =>
                /\ ret'.op = "updateUserProfile"
                /\ ret'.userId = u
                /\ ret'.interaction.category = c]_vars

\* C5 witness: a profile that has recorded interactions of both categories and one
\* that references no category.
C5_Witness ==
    \E i \in 1..Len(userProfiles) :
        /\ userProfiles[i].categoryAffinities["clothing"] > 0
        /\ userProfiles[i].categoryAffinities["shoes"] > 0
        /\ IsCall("updateUserProfile")
        /\ ret.userId = userProfiles[i].userId
        /\ ret.interaction.category = ""

\* C6: behaviorHistory holds the most recent min(n, maxHistoryItems) of the n
\* interactions recorded for the user, in recording order, the newest last.
C6_HistoryFifo ==
    \A i \in 1..Len(userProfiles) :
        LET profile == userProfiles[i]
            history == profile.behaviorHistory
            n == profile.totalInteractions
            k == Min(n, maxHistoryItems)
        IN  /\ Len(history) = k
            /\ \A j \in 1..k : history[j].timestamp = n - k + j
            /\ IsCall("updateUserProfile") /\ ret.userId = profile.userId =>
                  /\ history[k].type = ret.interaction.type
                  /\ history[k].productId = ret.interaction.productId

\* C6 witness: a profile that has recorded more interactions than the cap.
C6_Witness ==
    \E i \in 1..Len(userProfiles) :
        /\ userProfiles[i].totalInteractions > maxHistoryItems
        /\ Len(userProfiles[i].behaviorHistory) = maxHistoryItems

\* C7: when findSimilarUsers finds no user for the target, the collaborative call
\* returns what the content-based call returns for the same arguments.
C7_FallbackToContentBased ==
    IsCall("getCollaborativeRecommendations")
        /\ findSimilarUsers(userProfiles, ret.userId, minSimilarUsers) = <<>> =>
            ret.value = getContentBasedRecommendations(userProfiles, ret.userId,
                                                       ret.products, ret.limit)

\* C7 witness: a collaborative call for a target whose only other profile has a
\* similarity that is a number below the threshold, returning products.
C7_Witness ==
    /\ IsCall("getCollaborativeRecommendations")
    /\ Len(userProfiles) = 2
    /\ \A i \in 1..Len(userProfiles) :
          userProfiles[i].userId # ret.userId =>
              /\ IsNumber(calculateUserSimilarity(userProfiles, ret.userId, userProfiles[i].userId))
              /\ userProfiles[i].totalInteractions > 0
    /\ findSimilarUsers(userProfiles, ret.userId, minSimilarUsers) = <<>>
    /\ ret.value # <<>>

\* The users the claim keeps: the others whose similarity is a number not below 0.1
NotBelowThreshold(store, userId) ==
    LET others == SelectSeq(Keys(store), LAMBDA k : k # userId)
        scored == [i \in 1..Len(others) |->
                     [userId |-> others[i],
                      similarity |-> calculateUserSimilarity(store, userId, others[i])]]
    IN  SelectSeq(scored, LAMBDA e : IsNumber(e.similarity) /\ e.similarity >= MinSimilarity)

\* C8: findSimilarUsers returns the other profiles whose similarity is not below 0.1
\* (exactly 0.1 is kept), by descending similarity, ties in store order, cut to limit.
C8_KeepsThreshold ==
    IsCall("findSimilarUsers") =>
        LET kept == NotBelowThreshold(userProfiles, ret.userId)
        IN  ret.value = Take(SortDesc(kept, [e \in Range(kept) |-> e.similarity]), ret.limit)

\* 0.1 times the average tag affinity, in 1/ScoreScale, with the average of no tags 0
AverageTagTerm(profile, tags) ==
    LET n == Len(tags)
        sum == SumOver(1..n, [i \in 1..n |-> IF tags[i] \in Tags THEN profile.tags[tags[i]] ELSE 0])
    IN  IF n = 0 THEN 0 ELSE (300 * sum) \div n

\* The score of the claim: 0.4 category + 0.3 brand + 0.2 price in range + 0.1 tags
ClaimedScore(profile, product) ==
    LET range == PriceRangeOf(profile)
    IN  12 * (IF product.category \in Categories
              THEN profile.categoryAffinities[product.category] ELSE 0)
        + 9 * (IF product.brand \in Brands THEN profile.brandAffinities[product.brand] ELSE 0)
        + (IF product.price # 0 /\ range.min <= product.price /\ product.price <= range.max
           THEN 600 ELSE 0)
        + (IF product.hasTags /\ profile.hasStyleProfile
           THEN AverageTagTerm(profile, product.tags) ELSE 0)

\* C9: the content-based call scores each candidate by the claimed formula, drops the
\* products whose score is 0 and returns the rest by descending score (the first
\* `limit` of them).
C9_ContentBasedRanking ==
    IsCall("getContentBasedRecommendations") =>
        LET profile == Get(userProfiles, ret.userId)
            scored == [i \in 1..Len(ret.products) |->
                         [product |-> ret.products[i],
                          score |-> ClaimedScore(profile, ret.products[i])]]
            rest == SelectSeq(scored, LAMBDA r : r.score > 0)
            ranked == Take(SortDesc(rest, [r \in Range(rest) |-> r.score]), ret.limit)
        IN  ret.value = [i \in 1..Len(ranked) |-> ranked[i].product]

\* C10: no ratio of the scorer yields NaN: the score of every candidate is a number,
\* also of a product whose tag list is empty.
C10_NoNaN ==
    IsCall("getContentBasedRecommendations") =>
        \A i \in 1..Len(ret.products) :
            IsNumber(ContentScore(Get(userProfiles, ret.userId), ret.products[i]))

\* The profile of userId as getUserProfile finds or creates it
ProfileOf(store, userId) == getUserProfile(store, userId)

\* The entry that the last updateUserProfile call pushed
LastEntry(profile) == profile.behaviorHistory[Len(profile.behaviorHistory)]

\* C11: recording an interaction adds weight * categoryWeights[category] to the
\* category's affinity and weight to the brand's affinity, weight being the value
\* baseWeight * timeWeight * contextWeight stored with the behaviorHistory entry.
C11_IncrementIsStoredWeight ==
    [][ret'.op = "updateUserProfile" =>
          LET before == ProfileOf(userProfiles, ret'.userId)
              after == ProfileOf(userProfiles', ret'.userId)
              in == ret'.interaction
              weight == LastEntry(after).weight
          IN  /\ in.category # "" =>
                    after.categoryAffinities[in.category]
                        - before.categoryAffinities[in.category]
                    = (weight * categoryWeights(in.category)) \div 100
              /\ in.brand # "" =>
                    after.brandAffinities[in.brand] - before.brandAffinities[in.brand]
                    = weight]_vars

\* C12: a purchase adds one entry to purchaseHistory and sets conversionRate to
\* purchases / views recorded for the user (0 without views), averageOrderValue to
\* total value / purchases and lifetimeValue to the total value; a profile without
\* interactions has conversionRate 0 and averageOrderValue 0.
C12_ConversionMetrics ==
    [][/\ \A i \in 1..Len(userProfiles') :
              userProfiles'[i].totalInteractions = 0 =>
                  /\ userProfiles'[i].conversionRate = 0
                  /\ userProfiles'[i].averageOrderValue = 0
       /\ ret'.op = "updateUserProfile" /\ ret'.interaction.type = "purchase" =>
              LET before == ProfileOf(userProfiles, ret'.userId)
                  after == ProfileOf(userProfiles', ret'.userId)
                  n == Len(after.purchaseHistory)
                  total == SumOver(1..n, [i \in 1..n |-> after.purchaseHistory[i].price])
              IN  /\ n = Len(before.purchaseHistory) + 1
                  /\ after.conversionRate =
                        IF after.viewsRecorded > 0 THEN Ratio(n, after.viewsRecorded) ELSE 0
                  /\ after.averageOrderValue = Ratio(total, n)
                  /\ after.lifetimeValue = total]_vars

\* C13: a profile whose purchaseHistory holds n >= 5 priced purchases has its
\* preferredPriceRange at the nearest-rank 10th and 90th percentile of those n prices.
C13_PreferredPriceRange ==
    \A i \in 1..Len(userProfiles) :
        LET prices == PurchasePrices(userProfiles[i])
            n == Len(prices)
        IN  n >= 5 =>
                /\ userProfiles[i].hasPreferredPriceRange
                /\ userProfiles[i].preferredPriceRange =
                      [min |-> prices[(n + 9) \div 10], max |-> prices[(9 * n + 9) \div 10]]

\* C14: an interaction with absent fields is recorded, and each absent field leaves
\* its own part of the profile as it was: category the categoryAffinities, brand the
\* brandAffinities, price the priceRange and preferredPriceRange, style and tags the
\* styleProfile; the entry is pushed on behaviorHistory all the same.
C14_AbsentFieldsSkip ==
    [][ret'.op = "updateUserProfile" =>
          LET before == ProfileOf(userProfiles, ret'.userId)
              after == ProfileOf(userProfiles', ret'.userId)
              in == ret'.interaction
          IN  /\ in.category = "" => after.categoryAffinities = before.categoryAffinities
              /\ in.brand = "" => after.brandAffinities = before.brandAffinities
              /\ in.price = 0 =>
                    /\ after.priceRange = before.priceRange
                    /\ after.hasPreferredPriceRange = before.hasPreferredPriceRange
                    /\ after.preferredPriceRange = before.preferredPriceRange
              /\ in.style = "" /\ ~in.hasTags =>
                    /\ after.hasStyleProfile = before.hasStyleProfile
                    /\ after.styles = before.styles
                    /\ after.tags = before.tags
              /\ after.totalInteractions = before.totalInteractions + 1
              /\ after.behaviorHistory # <<>>
              /\ LastEntry(after).type = in.type
              /\ LastEntry(after).productId = in.productId]_vars

\* C14 witness: an interaction without category, brand and price has been recorded
\* for a profile that had affinities and a widened price range, and the profile's
\* style profile was never touched by an interaction without style and tags.
C14_Witness ==
    /\ IsCall("updateUserProfile")
    /\ ret.interaction.category = "" /\ ret.interaction.brand = "" /\ ret.interaction.price = 0
    /\ ret.value.categoryAffinities["clothing"] > 0
    /\ ret.value.brandAffinities["b1"] > 0
    /\ ret.value.priceRange.min > 0
    /\ \E i \in 1..Len(userProfiles) :
          /\ userProfiles[i].totalInteractions > 0
          /\ ~userProfiles[i].hasStyleProfile

\* C15: no query changes the profile store: a step that is no updateUserProfile
\* call leaves userProfiles as it was, so a profile comes into existence only when
\* an interaction is recorded.
C15_QueriesLeaveStore ==
    [][ret'.op # "updateUserProfile" => userProfiles' = userProfiles]_vars

C17_EmptyInEmptyOut ==
    /\ /\ ret.op \in {"getContentBasedRecommendations", "getCollaborativeRecommendations",
                      "getPersonalizedRecommendations"}
       /\ ret.products = <<>>
       => ret.value = <<>>
    /\ /\ IsCall("findSimilarUsers")
       /\ \A i \in 1..Len(userProfiles) : userProfiles[i].userId = ret.userId
       => ret.value = <<>>

\* C17 witness: a collaborative call with no candidate for a target that has a
\* similar user.
C17_Witness ==
    /\ IsCall("getCollaborativeRecommendations")
    /\ ret.products = <<>>
    /\ findSimilarUsers(userProfiles, ret.userId, minSimilarUsers) # <<>>
    /\ ret.value = <<>>

RequestsOf(store, key) == IF key \in DOMAIN store THEN Len(store[key].requests) ELSE 0

\* C19: for every key, the checkRateLimit calls of any window of the configured
\* length that returned allowed: true are at most the configured number, whenever
\* the cleanup timer fires in between; and a denied call adds no request to the entry.
C19_AtMostLimitPerWindow ==
    [][/\ \A key \in RateKeys : Len(granted'[key]) <= rateLimits[key[1]].requests
       /\ \A key \in RateKeys :
              /\ ret'.op = "checkRateLimit" /\ now' = now
              /\ rateLimitStore' # rateLimitStore
              /\ ~ret'.value.allowed
              => RequestsOf(rateLimitStore', key) <= RequestsOf(rateLimitStore, key)]_vars

\* C20: a check of an identifier that has maxFailedAttempts failures within
\* lockoutDuration, or an active lock, reports blocked; the check that finds the
\* failures sets the lock to end lockoutDuration later; and while the lock is
\* active no step but recordSuccessfulAttempt, the cleanup timer included, removes
\* the identifier or changes the end of its lock.
C20_Lockout ==
    [][\A id \in Identifiers :
          LET has == id \in DOMAIN threatStore
              locked == has /\ LockoutActive(threatStore[id], now)
              due == has /\ Len(RecentFailures(threatStore[id], now)) >= maxFailedAttempts
              isCheck == /\ ret'.op \in {"checkFailedAttempts", "detectThreats"}
                         /\ ret'.userId = id
                         /\ now' = now
          IN  /\ isCheck /\ (locked \/ due) =>
                    /\ ret'.value.blocked
                    /\ id \in DOMAIN threatStore'
                    /\ threatStore'[id].lockedUntil > now
              /\ isCheck /\ ~locked /\ due =>
                    threatStore'[id].lockedUntil = now + lockoutDuration
              /\ locked /\ ~(ret'.op = "recordSuccessfulAttempt" /\ ret'.userId = id
                             /\ threatStore' # threatStore) =>
                    /\ id \in DOMAIN threatStore'
                    /\ threatStore'[id].lockedUntil = threatStore[id].lockedUntil]_vars

\* C20 witness: a check reports blocked for an identifier whose lock is active and
\* whose failures of the last lockoutDuration are fewer than maxFailedAttempts,
\* after the cleanup timer could fire.
C20_Witness ==
    /\ IsCall("checkFailedAttempts")
    /\ ret.value.blocked
    /\ ret.value.reason = "lockout_active"
    /\ now >= threatCleanupInterval
    /\ ret.userId \in DOMAIN threatStore
    /\ Len(RecentFailures(threatStore[ret.userId], now)) < maxFailedAttempts

SessionIds(store) == {store[i].id : i \in 1..Len(store)}
SessionOf(store, sessionId) == store[SessionIndex(store, sessionId)]
DueForRotation(store, t) == {store[i].id : i \in {j \in 1..Len(store) : store[j].rotateAt < t}}
SessionsOfUser(store, ids, userId) == {id \in ids : SessionOf(store, id).userId = userId}

\* C21: validateSession reports valid only for a stored session whose expiresAt and
\* rotateAt have not passed, and removes a session whose expiresAt has passed;
\* rotateSession replaces a stored session by one new session of the same user
\* under an id never issued before; rotateExpiredSessions does so for every session
\* whose rotateAt has passed and leaves the other sessions as they are.
C21_SessionRotation ==
    [][now' = now =>
         LET sessionId == ret'.limit
             ids == SessionIds(sessionStore)
             after == SessionIds(sessionStore')
             due == DueForRotation(sessionStore, now)
             new == after \ ids
         IN  /\ ret'.op = "validateSession" /\ ret'.value.valid =>
                   /\ sessionId \in ids
                   /\ SessionOf(sessionStore, sessionId).expiresAt >= now
                   /\ SessionOf(sessionStore, sessionId).rotateAt >= now
             /\ ret'.op = "validateSession" /\ sessionId \in ids
                   /\ SessionOf(sessionStore, sessionId).expiresAt < now =>
                   sessionId \notin after
             /\ ret'.op = "rotateSession" /\ sessionId \in ids =>
                   /\ ret'.value > issued
                   /\ after = (ids \ {sessionId}) \cup {ret'.value}
                   /\ Len(sessionStore') = Len(sessionStore)
                   /\ SessionOf(sessionStore', ret'.value).userId
                         = SessionOf(sessionStore, sessionId).userId
                   /\ \A id \in ids \ {sessionId} :
                         SessionOf(sessionStore', id) = SessionOf(sessionStore, id)
             /\ ret'.op = "rotateExpiredSessions" =>
                   /\ after \cap due = {}
                   /\ \A id \in ids \ due :
                         id \in after /\ SessionOf(sessionStore', id) = SessionOf(sessionStore, id)
                   /\ \A id \in new : id > issued
                   /\ Len(sessionStore') = Len(sessionStore)
                   /\ \A userId \in Users :
                         Cardinality(SessionsOfUser(sessionStore', new, userId))
                            = Cardinality(SessionsOfUser(sessionStore, due, userId))
                   /\ \A id \in new : SessionOf(sessionStore', id).rotateAt > now]_vars

\* The timer has rotated sessions, and a later validateSession found one expired
C21_Witness ==
    /\ ret.op = "validateSession"
    /\ ret.value.reason = "session_expired"
    /\ issued > MaxSessions
    /\ Len(sessionStore) = 1
    /\ sessionStore[1].rotateAt >= now

\* C22: the entry stored for an interaction has the weight baseWeight * timeWeight *
\* contextWeight with the timeWeight of the age of the interaction's own timestamp
\* at recording (1.0 below a day, 0.8 below 7 days, 0.6 below 30 days, else 0.3),
\* and the weights of the entries stored before are left as they are.
C22_TimeWeightOfOwnTimestamp ==
    [][ret'.op = "updateUserProfile" =>
          LET before == ProfileOf(userProfiles, ret'.userId)
              after == ProfileOf(userProfiles', ret'.userId)
              in == ret'.interaction
              kept == Len(after.behaviorHistory) - 1
          IN  /\ \E ctx \in Contexts :
                    LastEntry(after).weight
                    = (clickWeights(in.type) * calculateTimeWeight(in.timestampAge)
                          * calculateContextWeight(in, ctx)) \div 1000
              /\ SubSeq(after.behaviorHistory, 1, kept)
                    = LastN(before.behaviorHistory, kept)]_vars

IdsOf(products) == {products[i].id : i \in 1..Len(products)}
DistinctIds(products) == Cardinality(IdsOf(products)) = Len(products)

\* (N - index) of the id in a ranked list of N products, 0 for an id not in the list
RankOf(recs, id) ==
    IF id \in IdsOf(recs)
    THEN Len(recs) - ((CHOOSE i \in 1..Len(recs) : recs[i].id = id) - 1)
    ELSE 0

\* hybridWeight * collabRankScore + (1 - hybridWeight) * contentRankScore of an id, as
\* a count of 1/(10 * n * m), n and m the lengths of the two lists
ClaimedCombined(collaborativeRecs, contentBasedRecs, id) ==
    hybridWeight * RankOf(collaborativeRecs, id) * Max(Len(contentBasedRecs), 1)
    + (10 - hybridWeight) * RankOf(contentBasedRecs, id) * Max(Len(collaborativeRecs), 1)

\* C23: for products of distinct ids, the list the hybrid call hands to the diversity
\* filter holds each product of the collaborative or the content-based list once,
\* with the score hybridWeight * collabRankScore + (1 - hybridWeight) *
\* contentRankScore, rank-score (N - i)/N at index i of N and 0 for a product not in
\* the list, in descending order of that score; the call returns the filter's output.
C23_HybridCombination ==
    IsCall("getPersonalizedRecommendations") /\ DistinctIds(ret.products) =>
        LET collaborativeRecs ==
                getCollaborativeRecommendations(userProfiles, ret.userId, ret.products, ret.limit * 2)
            contentBasedRecs ==
                getContentBasedRecommendations(userProfiles, ret.userId, ret.products, ret.limit * 2)
            sortedProducts == SortedProducts(userProfiles, ret.userId, ret.products, ret.limit)
            diverse == applyDiversityFilter(sortedProducts, ret.limit)
        IN  /\ Len(sortedProducts) = Cardinality(IdsOf(collaborativeRecs) \cup IdsOf(contentBasedRecs))
            /\ \A i \in 1..Len(sortedProducts) :
                  /\ sortedProducts[i].product.id \in IdsOf(collaborativeRecs) \cup IdsOf(contentBasedRecs)
                  /\ sortedProducts[i].product = Find(ret.products, sortedProducts[i].product.id)
                  /\ sortedProducts[i].score
                        = ClaimedCombined(collaborativeRecs, contentBasedRecs,
                                          sortedProducts[i].product.id)
            /\ \A i, j \in 1..Len(sortedProducts) :
                  i # j => sortedProducts[i].product.id # sortedProducts[j].product.id
            /\ \A i \in 1..Len(sortedProducts) - 1 :
                  sortedProducts[i].score >= sortedProducts[i + 1].score
            /\ ret.value = [i \in 1..Len(diverse) |-> diverse[i].product]

\* A hybrid call whose collaborative list comes from a similar user, differs from the
\* content-based list and misses a product of it
C23_Witness ==
    /\ IsCall("getPersonalizedRecommendations")
    /\ DistinctIds(ret.products)
    /\ findSimilarUsers(userProfiles, ret.userId, minSimilarUsers) # <<>>
    /\ LET collaborativeRecs ==
               getCollaborativeRecommendations(userProfiles, ret.userId, ret.products, ret.limit * 2)
           contentBasedRecs ==
               getContentBasedRecommendations(userProfiles, ret.userId, ret.products, ret.limit * 2)
       IN  /\ collaborativeRecs # <<>>
           /\ IdsOf(contentBasedRecs) \ IdsOf(collaborativeRecs) # {}
           /\ Len(contentBasedRecs) >= 2
           /\ collaborativeRecs[1].id # contentBasedRecs[1].id

\* C24: the output of the diversity filter, the products of its second pass included,
\* never holds a product behind one of a lower combined score, and an input of at
\* most `limit` items is returned as it is.
C24_DiversityKeepsScoreOrder ==
    IsCall("getPersonalizedRecommendations") =>
        LET sortedProducts == SortedProducts(userProfiles, ret.userId, ret.products, ret.limit)
            diverse == applyDiversityFilter(sortedProducts, ret.limit)
        IN  /\ ret.value = [i \in 1..Len(diverse) |-> diverse[i].product]
            /\ \A i, j \in 1..Len(diverse) : i < j => diverse[i].score >= diverse[j].score
            /\ Len(sortedProducts) <= ret.limit => diverse = sortedProducts

\* The combined score the hybrid call gave a product, 0 for a product it did not score
CombinedScoreOf(sortedProducts, id) ==
    IF \E i \in 1..Len(sortedProducts) : sortedProducts[i].product.id = id
    THEN sortedProducts[CHOOSE i \in 1..Len(sortedProducts) : sortedProducts[i].product.id = id].score
    ELSE 0

\* C25: getRecommendations returns the products of the hybrid call, each with the
\* product of the multipliers that apply to it (1.2 time of day and tag, 1.1 weekend
\* leisure, 1.3 season, 1.4 outerwear in winter or swimwear in summer), in
\* descending order of recommendation score times boost.
C25_BoostedScoreOrder ==
    IsCall("getRecommendations") =>
        LET context == ret.value.context
            out == ret.value.recommendations
            hybrid == getPersonalizedRecommendations(userProfiles, ret.userId, ret.products, ret.limit)
            sortedProducts == SortedProducts(userProfiles, ret.userId, ret.products, ret.limit)
            boosted(r) == CombinedScoreOf(sortedProducts, r.product.id) * r.contextualBoost
            tagged(product, tag) == product.hasTags /\ tag \in Range(product.tags)
            multipliers(product) ==
                <<IF context.timeOfDay = "morning" /\ tagged(product, "work") THEN 12 ELSE 10,
                  IF context.timeOfDay = "evening" /\ tagged(product, "casual") THEN 12 ELSE 10,
                  IF context.isWeekend /\ tagged(product, "leisure") THEN 11 ELSE 10,
                  IF product.season = context.season THEN 13 ELSE 10,
                  IF product.category = "outerwear" /\ context.season = "winter" THEN 14 ELSE 10,
                  IF product.category = "swimwear" /\ context.season = "summer" THEN 14 ELSE 10>>
        IN  /\ {out[i].product : i \in 1..Len(out)} = Range(hybrid)
            /\ Len(out) = Len(hybrid)
            /\ \A i \in 1..Len(out) :
                  out[i].contextualBoost * (1000000 \div BoostScale)
                  = ProdOver(1..6, multipliers(out[i].product))
            /\ \A i, j \in 1..Len(out) : i < j => boosted(out[i]) >= boosted(out[j])

\* The sum, over the purchase and add_to_cart entries of the product in the histories
\* of the similar users, of similarity * weight
ClaimedCollaborative(store, similarUsers, id) ==
    LET history(k) == Get(store, similarUsers[k].userId).behaviorHistory
        entries == {e \in (1..Len(similarUsers)) \X (1..maxHistoryItems) :
                       /\ e[2] <= Len(history(e[1]))
                       /\ history(e[1])[e[2]].type \in {"purchase", "add_to_cart"}
                       /\ history(e[1])[e[2]].productId = id}
    IN  SumOver(entries,
                [e \in entries |-> similarUsers[e[1]].similarity * history(e[1])[e[2]].weight])

\* C26: with similar users, getCollaborativeRecommendations returns the candidate
\* products that a similar user's history holds in a purchase or add_to_cart entry,
\* in descending order of the sum of similarity * weight over those entries, cut to
\* `limit`; other products and entries of other types add nothing.
C26_CollaborativeSum ==
    IsCall("getCollaborativeRecommendations") =>
        LET similarUsers == findSimilarUsers(userProfiles, ret.userId, minSimilarUsers)
            score(id) == ClaimedCollaborative(userProfiles, similarUsers, id)
            scored == {id \in IdsOf(ret.products) : score(id) > 0}
        IN  similarUsers # <<>> =>
               /\ IdsOf(ret.value) \subseteq scored
               /\ Len(ret.value) = Min(ret.limit, Cardinality(scored))
               /\ DistinctIds(ret.value)
               /\ \A i \in 1..Len(ret.value) : ret.value[i] = Find(ret.products, ret.value[i].id)
               /\ \A i, j \in 1..Len(ret.value) :
                     i < j => score(ret.value[i].id) >= score(ret.value[j].id)
               /\ \A id \in scored \ IdsOf(ret.value) :
                     \A i \in 1..Len(ret.value) : score(ret.value[i].id) >= score(id)

\* A collaborative call with two similar users who both hold the first product
\* returned and one of them a purchase of a product that is no candidate
C26_Witness ==
    /\ IsCall("getCollaborativeRecommendations")
    /\ LET similarUsers == findSimilarUsers(userProfiles, ret.userId, minSimilarUsers)
           history(k) == Get(userProfiles, similarUsers[k].userId).behaviorHistory
       IN  /\ Len(similarUsers) = 2
           /\ Len(ret.value) = ret.limit
           /\ \A k \in 1..2 : \E e \in 1..Len(history(k)) :
                 /\ history(k)[e].productId = ret.value[1].id
                 /\ history(k)[e].type \in {"purchase", "add_to_cart"}
           /\ \E k \in 1..2 : \E e \in 1..Len(history(k)) :
                 /\ history(k)[e].type = "purchase"
                 /\ history(k)[e].productId \notin IdsOf(ret.products)

\* C27: the retry chain of a batch is bounded: whatever the endpoint does, no
\* sendBatch call is the re-send of a batch that was re-sent maxRetries times before.
C27_RetryBounded ==
    \A s \in sends : s.resends <= maxRetries

\* C28: sending a batch enqueues no record that is flushed: in a step in which the
\* fetch of a sendBatch call settles, with success or with failure, the error queue
\* stays as it is and no batch other than the one of that call is sent.
C28_SendingFlushesNothing ==
    [][\A s \in sends \ sends' :
          s.waits = "fetch" =>
              /\ errorQueue' = errorQueue
              /\ \A t \in sends' \ sends : t.first = s.first]_vars

\* C29: saving and reloading loses nothing: when the stored item is the saved store
\* and a new engine loads it, every profile is as before, and so are the similarity
\* of every two users and the content-based score of every product.
C29_ReloadLossless ==
    [][(ret'.op = "loadUserProfiles" /\ localStorage = saveUserProfiles(userProfiles)) =>
          /\ userProfiles' = userProfiles
          /\ \A u1, u2 \in Users :
                calculateUserSimilarity(userProfiles', u1, u2)
                    = calculateUserSimilarity(userProfiles, u1, u2)
          /\ \A i \in 1..Len(userProfiles) : \A product \in {P1, P2, P3, P4, P5} :
                ContentScore(userProfiles'[i], product)
                    = ContentScore(userProfiles[i], product)]_vars

\* C30: an assignment never changes; a getExperimentVariant call returns 'control' or
\* a configured variant, the variant assigned before if there is one, and leaves the
\* user assigned to what it returns; a trackExperimentResult call appends one result
\* to the list of the user's variant and to no other, and changes nothing for a user
\* without an assignment or an experiment that is not configured.
C30_StickyAssignment ==
    [][LET experimentName == ret'.userId2
           userId == ret'.userId
           known == experimentName \in DOMAIN experiments
           assigned == known /\ userId \in DOMAIN experiments[experimentName].participants
       IN  /\ DOMAIN experiments' = DOMAIN experiments
           /\ \A n \in DOMAIN experiments : \A u \in DOMAIN experiments[n].participants :
                 /\ u \in DOMAIN experiments'[n].participants
                 /\ experiments'[n].participants[u] = experiments[n].participants[u]
           /\ ret'.op = "getExperimentVariant" =>
                 /\ IF known
                    THEN /\ ret'.value \in VariantsOf(experiments, experimentName)
                         /\ userId \in DOMAIN experiments'[experimentName].participants
                         /\ experiments'[experimentName].participants[userId] = ret'.value
                    ELSE ret'.value = "control" /\ experiments' = experiments
                 /\ assigned => /\ ret'.value = experiments[experimentName].participants[userId]
                                /\ experiments' = experiments
                 /\ \A n \in DOMAIN experiments :
                       experiments'[n].results = experiments[n].results
           /\ ret'.op = "trackExperimentResult" =>
                 IF assigned
                 THEN LET variant == experiments[experimentName].participants[userId]
                      IN  /\ ResultsOf(experiments', experimentName, variant)
                                = Append(ResultsOf(experiments, experimentName, variant),
                                         [userId |-> userId, metric |-> ret'.value,
                                          value |-> ret'.limit, timestamp |-> now])
                          /\ \A v \in VariantsOf(experiments, experimentName) \ {variant} :
                                ResultsOf(experiments', experimentName, v)
                                    = ResultsOf(experiments, experimentName, v)
                          /\ \A n \in DOMAIN experiments :
                                /\ experiments'[n].participants = experiments[n].participants
                                /\ n # experimentName =>
                                      experiments'[n].results = experiments[n].results
                          /\ DOMAIN experiments'[experimentName].results.variants
                                \subseteq Range(experiments[experimentName].variants)
                 ELSE experiments' = experiments]_vars

\* A later getExperimentVariant call for a user whose results are filed under a
\* variant other than control, while another user's are filed under control
C30_Witness ==
    /\ IsCall("getExperimentVariant")
    /\ ret.userId2 \in DOMAIN experiments
    /\ ret.value # "control"
    /\ \E i \in 1..Len(ResultsOf(experiments, ret.userId2, ret.value)) :
          ResultsOf(experiments, ret.userId2, ret.value)[i].userId = ret.userId
    /\ Len(ResultsOf(experiments, ret.userId2, "control")) > 0

====
